---------------------------- MODULE Spec2Model ----------------------------
(***************************************************************************)
(* A model of the ristretto255 package (gtank/ristretto255): the Element   *)
(* encoding and decoding, equality, the hash-to-group map and the byte     *)
(* constructors of Element and Scalar.                                     *)
(*                                                                         *)
(* Scale.  TLC's integers are 32 bits wide, so the arithmetic of           *)
(* GF(2^255 - 19) is not computable here.  The model keeps every           *)
(* algorithm of the source as written and instantiates it over the field   *)
(* GF(2^7 - 19) = GF(109), which has the same shape: p = 2^k - 19,         *)
(* p = 5 (mod 8), so (p - 5)/8 = 2^(k-3) - 3 exactly as 2^252 - 3 in the   *)
(* source; the curve -x^2 + y^2 = 1 + d x^2 y^2 has a non-square d, a      *)
(* square a*d - 1 = a - d and 8*l points with l = 13 prime.  An encoding   *)
(* is ElemLen = 1 byte (32 in the source) whose top bit is bit 7 (bit 255  *)
(* in the source); a uniform input is 2*ElemLen bytes (64).  A field       *)
(* element is its canonical residue in 0..P-1: the radix-2^51 limbs of     *)
(* the field package are below this model.                                 *)
(***************************************************************************)
EXTENDS Integers, Sequences, FiniteSets, TLC

VARIABLES
    e,         \* the receiver Element: [X, Y, Z, T]
    q,         \* a second Element, the other operand of group operations
    s,         \* the receiver Scalar: an integer mod L, or its Montgomery limbs
    op,        \* the last call made
    arg,       \* the byte slice passed to the last call (<<>> when none)
    pre,       \* the receiver Element as it was before the last call
    preS,      \* the receiver Scalar as it was before the last call
    err,       \* the error value the last call returned
    ret,       \* the pointer the last call returned: "recv" or "nil"
    panicked,  \* the last call panicked
    nops       \* calls made so far

vars == <<e, q, s, op, arg, pre, preS, err, ret, panicked, nops>>

---------------------------------------------------------------------------
(* Parameters of the scaled instance.                                      *)

\* The field prime, 2^255 - 19 in the source.
P == 109

\* The order of the group and of the scalar field, l in the source.
L == 13

\* Bytes of an encoded Element or Scalar, 32 in the source.
ElemLen == 1

\* Bytes of a uniform input, 64 in the source.
UniformLen == 2

\* The Edwards curve parameter d, a non-square with -(d + 1) a square.
D == 92

\* sqrt(-1), the non-negative root.
sqrtM1 == 76

\* sqrt(a*d - 1) with a = -1.
sqrtADMinusOne == 105

\* 1 / sqrt(a - d).
invSqrtAMinusD == 82

\* 1 - d^2.
oneMinusDSQ == 39

\* (d - 1)^2.
dMinusOneSQ == 106

zero == 0
one == 1
two == 2
minusOne == P - 1

Byte == 0..255
Fe == 0..(P - 1)

---------------------------------------------------------------------------
(* Field arithmetic: the operations of the field package on canonical      *)
(* residues.                                                               *)

FeAdd(a, b) == (a + b) % P
FeSub(a, b) == (a - b + P) % P
FeNeg(a) == (P - a) % P
FeMul(a, b) == (a * b) % P
FeSquare(a) == (a * a) % P

\* 1 when a = b, else 0.
FeEqual(a, b) == IF a = b THEN 1 ELSE 0

\* The low bit of the canonical encoding.
FeIsNegative(a) == a % 2

\* a when cond = 1, b otherwise.
FeSelect(a, b, cond) == IF cond = 1 THEN a ELSE b

FeAbs(a) == FeSelect(FeNeg(a), a, FeIsNegative(a))

\* The integer a little-endian byte string encodes.
RECURSIVE LittleEndian(_)
LittleEndian(b) ==
    IF Len(b) = 0 THEN 0 ELSE b[1] + 256 * LittleEndian(Tail(b))

\* The n little-endian bytes of x.
RECURSIVE ToLittleEndian(_, _)
ToLittleEndian(x, n) ==
    IF n = 0 THEN <<>> ELSE <<x % 256>> \o ToLittleEndian(x \div 256, n - 1)

\* SetBytes: the top bit of the last byte is ignored, the rest is reduced.
FeFromBytes(b) == (LittleEndian(b) % (2 ^ (8 * ElemLen - 1))) % P

\* Bytes: the canonical encoding.
FeBytes(a) == ToLittleEndian(a, ElemLen)

\* fePow22523: z^((p-5)/8), that is z^(2^(k-3) - 3).  The chain of the
\* source ends on z^(2^(k-2) - 1) squared twice and multiplied by z.
fePow22523(z) ==
    LET t0 == FeSquare(z)
        t1 == FeMul(t0, z)
    IN  FeMul(FeSquare(FeSquare(t1)), z)

\* Bitwise or of two 0/1 flags.
Or(a, b) == IF a = 1 \/ b = 1 THEN 1 ELSE 0

\* The second half of feSqrtRatio with the flag of the first comparison only.
feSqrtRatioSelectCorrectSignOnly(u, v, r) ==
    LET check == FeMul(FeSquare(r), v)
        uneg == FeNeg(u)
        flipped_sign_sqrt == FeEqual(check, uneg)
        flipped_sign_sqrt_i == FeEqual(check, FeMul(uneg, sqrtM1))
    IN  [r |-> FeAbs(FeSelect(FeMul(r, sqrtM1), r,
                              Or(flipped_sign_sqrt, flipped_sign_sqrt_i))),
         wasSquare |-> FeEqual(check, u)]

\* The second half of feSqrtRatio: r is the candidate root uv3 * (uv7)^((p-5)/8).
feSqrtRatioSelect(u, v, r) ==
    LET check == FeMul(FeSquare(r), v)
        uneg == FeNeg(u)
        correct_sign_sqrt == FeEqual(check, u)
        flipped_sign_sqrt == FeEqual(check, uneg)
        flipped_sign_sqrt_i == FeEqual(check, FeMul(uneg, sqrtM1))
        r_prime == FeMul(r, sqrtM1)
    IN  [r |-> FeAbs(FeSelect(r_prime, r,
                              Or(flipped_sign_sqrt, flipped_sign_sqrt_i))),
         wasSquare |-> Or(correct_sign_sqrt, flipped_sign_sqrt)]

\* feSqrtRatio: [r, wasSquare].
feSqrtRatio(u, v) ==
    LET v3 == FeMul(FeSquare(v), v)
        v7 == FeMul(FeSquare(v3), v)
        uv3 == FeMul(u, v3)
        uv7 == FeMul(u, v7)
    IN  feSqrtRatioSelect(u, v, FeMul(uv3, fePow22523(uv7)))

---------------------------------------------------------------------------
(* Points and Elements.                                                    *)

Point(X, Y, Z, T) == [X |-> X, Y |-> Y, Z |-> Z, T |-> T]

\* isOnCurve of SetExtendedCoordinates: -X^2 + Y^2 = Z^2 + d T^2, XY = ZT.
isOnCurve(pt) ==
    /\ FeSub(FeSquare(pt.Y), FeSquare(pt.X))
         = FeAdd(FeMul(D, FeSquare(pt.T)), FeSquare(pt.Z))
    /\ FeMul(pt.X, pt.Y) = FeMul(pt.T, pt.Z)

NewIdentityElement == Point(0, 1, 1, 0)

\* The canonical generator: a point of order l with a non-negative x.
NewGeneratorElement == Point(44, 21, 1, 52)

errNil == "nil"
errInvalidEncoding == "ristretto255: invalid element encoding"

\* bytesRotate that never rotates by the point of order 4.
bytesRotateNoRotate(X, Y, Z, T, u1, u2, invSqrt) ==
    LET den1 == FeMul(invSqrt, u1)
        den2 == FeMul(invSqrt, u2)
        zInv == FeMul(FeMul(den1, den2), T)
        isNegative == FeIsNegative(FeMul(X, zInv))
        y == FeSelect(FeNeg(Y), Y, isNegative)
    IN  FeBytes(FeAbs(FeMul(FeSub(Z, y), den2)))

\* bytesRotate without the absolute value of the result.
bytesRotateNoAbs(X, Y, Z, T, u1, u2, invSqrt) ==
    LET den1 == FeMul(invSqrt, u1)
        den2 == FeMul(invSqrt, u2)
        zInv == FeMul(FeMul(den1, den2), T)
        ix0 == FeMul(X, sqrtM1)
        iy0 == FeMul(Y, sqrtM1)
        enchantedDenominator == FeMul(den1, invSqrtAMinusD)
        rotate == FeIsNegative(FeMul(T, zInv))
        x == FeSelect(iy0, X, rotate)
        y0 == FeSelect(ix0, Y, rotate)
        denInv == FeSelect(enchantedDenominator, den2, rotate)
        isNegative == FeIsNegative(FeMul(x, zInv))
        y == FeSelect(FeNeg(y0), y0, isNegative)
    IN  FeBytes(FeMul(FeSub(Z, y), denInv))

\* The second half of Element.bytes: invSqrt is the root of 1 / (u1 * u2^2).
bytesRotate(X, Y, Z, T, u1, u2, invSqrt) ==
    LET den1 == FeMul(invSqrt, u1)
        den2 == FeMul(invSqrt, u2)
        zInv == FeMul(FeMul(den1, den2), T)
        ix0 == FeMul(X, sqrtM1)
        iy0 == FeMul(Y, sqrtM1)
        enchantedDenominator == FeMul(den1, invSqrtAMinusD)
        rotate == FeIsNegative(FeMul(T, zInv))
        x == FeSelect(iy0, X, rotate)
        y0 == FeSelect(ix0, Y, rotate)
        denInv == FeSelect(enchantedDenominator, den2, rotate)
        isNegative == FeIsNegative(FeMul(x, zInv))
        y == FeSelect(FeNeg(y0), y0, isNegative)
    IN  FeBytes(FeAbs(FeMul(FeSub(Z, y), denInv)))

\* u1 = (z0 + y0) * (z0 - y0) and u2 = x0 * y0 of the encoder.
bytesU1(el) == FeMul(FeAdd(el.Z, el.Y), FeSub(el.Z, el.Y))
bytesU2(el) == FeMul(el.X, el.Y)

\* invSqrt of Element.bytes: SqrtRatio(one, u2^2 * u1).
bytesInvSqrt(el) ==
    feSqrtRatio(one, FeMul(FeSquare(bytesU2(el)), bytesU1(el))).r

\* Element.bytes: the canonical encoding.
bytes(el) ==
    bytesRotate(el.X, el.Y, el.Z, el.T, bytesU1(el), bytesU2(el), bytesInvSqrt(el))

\* invSqrt of Element.Encode of ristretto255.go: feSqrtRatio(invSqrt, u1,
\* tmp.Square(u2)).
encodeInvSqrtV0(ee) == feSqrtRatio(bytesU1(ee), FeSquare(bytesU2(ee))).r

\* Element.Encode of ristretto255.go: the encoding of its argument.
EncodeV0(ee) ==
    bytesRotate(ee.X, ee.Y, ee.Z, ee.T, bytesU1(ee), bytesU2(ee), encodeInvSqrtV0(ee))

\* The outcome of a failed decoding: the receiver is not written.
invalidEncoding(el) ==
    [e |-> el, ret |-> "nil", err |-> errInvalidEncoding, panic |-> FALSE]

\* The coordinates SetCanonicalBytes computes once the square root is taken:
\* [pt, wasSquare].
decodeCoordinates(sv, u1, u2, v, sr) ==
    LET denX == FeMul(sr.r, u2)
        denY == FeMul(FeMul(sr.r, denX), v)
        X == FeAbs(FeMul(FeMul(two, sv), denX))
        Y == FeMul(u1, denY)
    IN  [pt |-> Point(X, Y, one, FeMul(X, Y)), wasSquare |-> sr.wasSquare]

\* The square-root step of SetCanonicalBytes on the field element sv.
decodeField(sv) ==
    LET sSqr == FeSquare(sv)
        u1 == FeSub(one, sSqr)
        u2 == FeAdd(one, sSqr)
        u2Sqr == FeSquare(u2)
        v == FeSub(FeNeg(FeMul(FeSquare(u1), D)), u2Sqr)
    IN  decodeCoordinates(sv, u1, u2, v, feSqrtRatio(one, FeMul(v, u2Sqr)))

\* setCanonicalResult without the check of Y = 0.
setCanonicalResultNoYCheck(el, dc) ==
    IF dc.wasSquare = 0 \/ FeIsNegative(dc.pt.T) = 1
    THEN invalidEncoding(el)
    ELSE IF ~isOnCurve(dc.pt)
    THEN [e |-> el, ret |-> "nil", err |-> errNil, panic |-> TRUE]
    ELSE [e |-> dc.pt, ret |-> "recv", err |-> errNil, panic |-> FALSE]

\* setCanonicalResult with X in place of Y in the check against zero.
setCanonicalResultXCheck(el, dc) ==
    IF \/ dc.wasSquare = 0
       \/ FeIsNegative(dc.pt.T) = 1
       \/ FeEqual(dc.pt.X, zero) = 1
    THEN invalidEncoding(el)
    ELSE IF ~isOnCurve(dc.pt)
    THEN [e |-> el, ret |-> "nil", err |-> errNil, panic |-> TRUE]
    ELSE [e |-> dc.pt, ret |-> "recv", err |-> errNil, panic |-> FALSE]

\* The last checks of SetCanonicalBytes and its write of the receiver; the
\* write panics when SetExtendedCoordinates refuses the coordinates.
setCanonicalResult(el, dc) ==
    IF \/ dc.wasSquare = 0
       \/ FeIsNegative(dc.pt.T) = 1
       \/ FeEqual(dc.pt.Y, zero) = 1
    THEN invalidEncoding(el)
    ELSE IF ~isOnCurve(dc.pt)
    THEN [e |-> el, ret |-> "nil", err |-> errNil, panic |-> TRUE]
    ELSE [e |-> dc.pt, ret |-> "recv", err |-> errNil, panic |-> FALSE]

\* Element.SetCanonicalBytes on receiver el: [e, ret, err, panic].
SetCanonicalBytes(el, in) ==
    IF Len(in) # ElemLen
    THEN invalidEncoding(el)
    ELSE IF FeBytes(FeFromBytes(in)) # in
    THEN invalidEncoding(el)
    ELSE IF FeIsNegative(FeFromBytes(in)) = 1
    THEN invalidEncoding(el)
    ELSE setCanonicalResult(el, decodeField(FeFromBytes(in)))

\* Element.Decode: the error of SetCanonicalBytes, no pointer.
decodeResult(r) == [e |-> r.e, ret |-> "none", err |-> r.err, panic |-> r.panic]
Decode(el, in) == decodeResult(SetCanonicalBytes(el, in))

---------------------------------------------------------------------------
(* Group operations.                                                       *)

\* 2*d, the constant of the addition formula.
d2 == FeMul(two, D)

\* extendedAdd with d in the place of 2*d.
extendedAddD(p1, p2) ==
    LET A == FeMul(FeSub(p1.Y, p1.X), FeSub(p2.Y, p2.X))
        B == FeMul(FeAdd(p1.Y, p1.X), FeAdd(p2.Y, p2.X))
        C == FeMul(FeMul(p1.T, p2.T), D)
        DD == FeAdd(FeMul(p1.Z, p2.Z), FeMul(p1.Z, p2.Z))
        E == FeSub(B, A)
        F == FeSub(DD, C)
        G == FeAdd(DD, C)
        H == FeAdd(B, A)
    IN  Point(FeMul(E, F), FeMul(G, H), FeMul(F, G), FeMul(E, H))

\* extendedAdd with T3 = E*G.
extendedAddTFromG(p1, p2) ==
    LET A == FeMul(FeSub(p1.Y, p1.X), FeSub(p2.Y, p2.X))
        B == FeMul(FeAdd(p1.Y, p1.X), FeAdd(p2.Y, p2.X))
        C == FeMul(FeMul(p1.T, p2.T), d2)
        DD == FeAdd(FeMul(p1.Z, p2.Z), FeMul(p1.Z, p2.Z))
        E == FeSub(B, A)
        F == FeSub(DD, C)
        G == FeAdd(DD, C)
        H == FeAdd(B, A)
    IN  Point(FeMul(E, F), FeMul(G, H), FeMul(F, G), FeMul(E, G))

\* extendedAdd: add-2008-hwcd-3.
extendedAdd(p1, p2) ==
    LET A == FeMul(FeSub(p1.Y, p1.X), FeSub(p2.Y, p2.X))
        B == FeMul(FeAdd(p1.Y, p1.X), FeAdd(p2.Y, p2.X))
        C == FeMul(FeMul(p1.T, p2.T), d2)
        DD == FeAdd(FeMul(p1.Z, p2.Z), FeMul(p1.Z, p2.Z))
        E == FeSub(B, A)
        F == FeSub(DD, C)
        G == FeAdd(DD, C)
        H == FeAdd(B, A)
    IN  Point(FeMul(E, F), FeMul(G, H), FeMul(F, G), FeMul(E, H))

\* Point negation: (-X, Y, Z, -T).
NegatePoint(p1) == Point(FeNeg(p1.X), p1.Y, p1.Z, FeNeg(p1.T))

\* Element.Add, Element.Subtract, Element.Negate: the value stored in e.
Add(p1, p2) == extendedAdd(p1, p2)
Subtract(p1, p2) == extendedAdd(p1, NegatePoint(p2))
Negate(p1) == NegatePoint(p1)

\* Equal with the first comparison only.
EqualFirstOnly(el, ee) == FeEqual(FeMul(el.X, ee.Y), FeMul(el.Y, ee.X))

\* Element.Equal.
Equal(el, ee) ==
    LET out0 == FeEqual(FeMul(el.X, ee.Y), FeMul(el.Y, ee.X))
        out1 == FeEqual(FeMul(el.Y, ee.Y), FeMul(el.X, ee.X))
    IN  Or(out0, out1)

---------------------------------------------------------------------------
(* Hash to group.                                                          *)

errUniformLength == "ristretto255: SetUniformBytes input is not 64 bytes long"

\* SetExtendedCoordinates at the end of mapToPoint: [pt, panic].
setExtendedCoordinates(pt) == [pt |-> pt, panic |-> ~isOnCurve(pt)]

\* mapToPointSelect with sqrtM1 in the place of sqrtADMinusOne.
mapToPointSelectSqrtM1(t, r, v, sr) ==
    LET c0 == minusOne
        wasSquare == sr.wasSquare
        sPrime == FeNeg(FeAbs(FeMul(sr.r, t)))
        s1 == FeSelect(sr.r, sPrime, wasSquare)
        c == FeSelect(c0, r, wasSquare)
        N == FeSub(FeMul(FeMul(c, FeSub(r, one)), dMinusOneSQ), v)
        s2 == FeSquare(s1)
        w0 == FeAdd(FeMul(s1, v), FeMul(s1, v))
        w1 == FeMul(N, sqrtM1)
        w2 == FeSub(one, s2)
        w3 == FeAdd(one, s2)
    IN  setExtendedCoordinates(
            Point(FeMul(w0, w3), FeMul(w2, w1), FeMul(w1, w3), FeMul(w0, w2)))

\* The second half of mapToPoint: sr is SQRT_RATIO_M1(u, v).
mapToPointSelect(t, r, v, sr) ==
    LET c0 == minusOne
        wasSquare == sr.wasSquare
        sPrime == FeNeg(FeAbs(FeMul(sr.r, t)))
        s1 == FeSelect(sr.r, sPrime, wasSquare)
        c == FeSelect(c0, r, wasSquare)
        N == FeSub(FeMul(FeMul(c, FeSub(r, one)), dMinusOneSQ), v)
        s2 == FeSquare(s1)
        w0 == FeAdd(FeMul(s1, v), FeMul(s1, v))
        w1 == FeMul(N, sqrtADMinusOne)
        w2 == FeSub(one, s2)
        w3 == FeAdd(one, s2)
    IN  setExtendedCoordinates(
            Point(FeMul(w0, w3), FeMul(w2, w1), FeMul(w1, w3), FeMul(w0, w2)))

\* mapToPoint: the Elligator map, [pt, panic].
mapToPoint(t) ==
    LET r == FeMul(sqrtM1, FeSquare(t))
        u == FeMul(FeAdd(r, one), oneMinusDSQ)
        c0 == minusOne
        rPlusD == FeAdd(r, D)
        v == FeMul(FeSub(c0, FeMul(r, D)), rPlusD)
    IN  mapToPointSelect(t, r, v, feSqrtRatio(u, v))

\* The sum SetUniformBytes stores in the receiver.
setUniformResult(el, point1, point2) ==
    IF point1.panic \/ point2.panic
    THEN [e |-> el, ret |-> "nil", err |-> errNil, panic |-> TRUE]
    ELSE [e |-> Add(point1.pt, point2.pt), ret |-> "recv", err |-> errNil,
          panic |-> FALSE]

\* SetUniformBytes that maps the first half of b twice.
SetUniformBytesFirstHalfTwice(el, b) ==
    IF Len(b) # UniformLen
    THEN [e |-> el, ret |-> "nil", err |-> errUniformLength, panic |-> FALSE]
    ELSE setUniformResult(el,
            mapToPoint(FeFromBytes(SubSeq(b, 1, ElemLen))),
            mapToPoint(FeFromBytes(SubSeq(b, 1, ElemLen))))

\* Element.SetUniformBytes on receiver el: [e, ret, err, panic].
SetUniformBytes(el, b) ==
    IF Len(b) # UniformLen
    THEN [e |-> el, ret |-> "nil", err |-> errUniformLength, panic |-> FALSE]
    ELSE setUniformResult(el,
            mapToPoint(FeFromBytes(SubSeq(b, 1, ElemLen))),
            mapToPoint(FeFromBytes(SubSeq(b, ElemLen + 1, UniformLen))))

\* Element.FromUniformBytes: panics on the error of SetUniformBytes.
fromUniformResult(r) ==
    IF r.err # errNil
    THEN [e |-> r.e, ret |-> "nil", err |-> errNil, panic |-> TRUE]
    ELSE [e |-> r.e, ret |-> "recv", err |-> errNil, panic |-> r.panic]

FromUniformBytes(el, b) == fromUniformResult(SetUniformBytes(el, b))

---------------------------------------------------------------------------
(* Scalars: an integer modulo l.                                           *)

errScalarUniformLength ==
    "ristretto255: SetUniformBytes input is not 64 bytes long"

\* edwards25519.Scalar.SetUniformBytes, the call Scalar.SetUniformBytes
\* wraps: [s, err]; x mod l, or an error and no write on a wrong length.
scSetUniformBytes(sc, x) ==
    IF Len(x) # UniformLen
    THEN [s |-> sc, err |-> "edwards25519: invalid SetUniformBytes input length"]
    ELSE [s |-> LittleEndian(x) % L, err |-> errNil]

\* Scalar.SetUniformBytes on receiver sc: [s, ret, err, panic].
scalarSetUniformResult(r) ==
    IF r.err # errNil
    THEN [s |-> r.s, ret |-> "nil", err |-> errScalarUniformLength,
          panic |-> FALSE]
    ELSE [s |-> r.s, ret |-> "recv", err |-> errNil, panic |-> FALSE]

\* Scalar.SetUniformBytes that returns its receiver along with the error.
ScalarSetUniformBytesReturnsReceiver(sc, x) ==
    [s |-> scSetUniformBytes(sc, x).s, ret |-> "recv",
     err |-> scalarSetUniformResult(scSetUniformBytes(sc, x)).err,
     panic |-> FALSE]

ScalarSetUniformBytes(sc, x) == scalarSetUniformResult(scSetUniformBytes(sc, x))

\* Scalar.FromUniformBytes: panics on the error of SetUniformBytes.
scalarFromUniformResult(r) ==
    IF r.err # errNil
    THEN [s |-> r.s, ret |-> "nil", err |-> errNil, panic |-> TRUE]
    ELSE [s |-> r.s, ret |-> "recv", err |-> errNil, panic |-> FALSE]

ScalarFromUniformBytes(sc, x) ==
    scalarFromUniformResult(ScalarSetUniformBytes(sc, x))

---------------------------------------------------------------------------
(* The earlier source tree (src/ristretto255.go): Decode writes into the   *)
(* receiver as it computes, FromUniformBytes panics on a wrong length.     *)

errInvalidEncodingV0 == "invalid Ristretto encoding"

\* feMinimal: the parsed bytes were the canonical encoding.
feMinimal(in) == LittleEndian(in) < P

\* The end of Decode: out is &e.r and is already written when the last
\* checks run.
decodeResultV0(out, wasSquare) ==
    IF \/ wasSquare = 0
       \/ FeIsNegative(out.T) = 1
       \/ FeEqual(out.Y, zero) = 1
    THEN [e |-> out, ret |-> "none", err |-> errInvalidEncodingV0,
          panic |-> FALSE]
    ELSE [e |-> out, ret |-> "none", err |-> errNil, panic |-> FALSE]

\* The coordinates Decode writes: [pt, wasSquare].
decodeCoordinatesV0(sv, u1, u2, v, sr) ==
    LET denX == FeMul(sr.r, u2)
        denY == FeMul(FeMul(sr.r, denX), v)
        X == FeAbs(FeMul(FeMul(two, sv), denX))
        Y == FeMul(u1, denY)
    IN  decodeResultV0(Point(X, Y, one, FeMul(X, Y)), sr.wasSquare)

\* The square-root step of Decode on the field element sv.
decodeFieldV0(sv) ==
    LET sSqr == FeSquare(sv)
        u1 == FeSub(one, sSqr)
        u2 == FeAdd(one, sSqr)
        u2Sqr == FeSquare(u2)
        v == FeSub(FeNeg(FeMul(FeSquare(u1), D)), u2Sqr)
    IN  decodeCoordinatesV0(sv, u1, u2, v, feSqrtRatio(one, FeMul(v, u2Sqr)))

\* Element.Decode of src/ristretto255.go: [e, ret, err, panic].
DecodeV0(el, in) ==
    IF Len(in) # ElemLen
    THEN [e |-> el, ret |-> "none", err |-> errInvalidEncodingV0,
          panic |-> FALSE]
    ELSE IF ~feMinimal(in) \/ FeIsNegative(FeFromBytes(in)) = 1
    THEN [e |-> el, ret |-> "none", err |-> errInvalidEncodingV0,
          panic |-> FALSE]
    ELSE decodeFieldV0(FeFromBytes(in))

\* The sum FromUniformBytes stores in the receiver.
fromUniformResultV0(p1, p2) ==
    [e |-> extendedAdd(p1.pt, p2.pt), ret |-> "none", err |-> errNil,
     panic |-> FALSE]

\* Element.FromUniformBytes of src/ristretto255.go.
FromUniformBytesV0(el, b) ==
    IF Len(b) # UniformLen
    THEN [e |-> el, ret |-> "none", err |-> errNil, panic |-> TRUE]
    ELSE fromUniformResultV0(
            mapToPoint(FeFromBytes(SubSeq(b, 1, ElemLen))),
            mapToPoint(FeFromBytes(SubSeq(b, ElemLen + 1, UniformLen))))

---------------------------------------------------------------------------
(* Scalar multiplication.                                                  *)

\* edwards25519.Point.ScalarMult: k * pt, the sum of k copies of pt.
RECURSIVE scalarMult(_, _)
scalarMult(k, pt) ==
    IF k = 0 THEN NewIdentityElement
    ELSE extendedAdd(scalarMult(k - 1, pt), pt)

\* edwards25519.Point.MultiScalarMult: the sum of scalars[i] * points[i],
\* over the indices of scalars.
RECURSIVE multiScalarMult(_, _)
multiScalarMult(scalars, points) ==
    IF Len(scalars) = 0 THEN NewIdentityElement
    ELSE extendedAdd(scalarMult(Head(scalars), Head(points)),
                     multiScalarMult(Tail(scalars), Tail(points)))

\* MultiScalarMult that refuses only a slice of points shorter than the
\* slice of scalars.
MultiScalarMultShortPointsOnly(el, sc, p) ==
    IF Len(p) < Len(sc)
    THEN [e |-> el, ret |-> "nil", err |-> errNil, panic |-> TRUE]
    ELSE [e |-> multiScalarMult(sc, p), ret |-> "recv", err |-> errNil,
          panic |-> FALSE]

\* Element.MultiScalarMult on receiver el: [e, ret, err, panic].
MultiScalarMult(el, sc, p) ==
    IF Len(p) # Len(sc)
    THEN [e |-> el, ret |-> "nil", err |-> errNil, panic |-> TRUE]
    ELSE [e |-> multiScalarMult(sc, p), ret |-> "recv", err |-> errNil,
          panic |-> FALSE]

\* Element.VarTimeMultiScalarMult on receiver el: [e, ret, err, panic].
VarTimeMultiScalarMult(el, sc, p) ==
    IF Len(p) # Len(sc)
    THEN [e |-> el, ret |-> "nil", err |-> errNil, panic |-> TRUE]
    ELSE [e |-> multiScalarMult(sc, p), ret |-> "recv", err |-> errNil,
          panic |-> FALSE]

-----------------------------------------------------------------------------
(* Multi-precision integers.  The internal scalar package works on the      *)
(* real group order l = 2^252 + 27742317777372353535851937790883648493, so  *)
(* its byte strings and its [4]uint64 values are modelled at full width: an *)
(* integer is a little-endian vector of limbs in radix LimbBase, every      *)
(* limb small enough for the products below to stay in range.  A vector     *)
(* produced by Normalize has limbs in 0..LimbBase-1 except the last, which  *)
(* carries the sign.  A test of the form Len(v) < 0 or c # c in a recursive *)
(* operator is never true: it makes TLC evaluate the argument before the    *)
(* recursion goes on, which keeps the evaluation shallow.                   *)

LimbBase == 4096

Min(a, b) == IF a < b THEN a ELSE b

Max(a, b) == IF a < b THEN b ELSE a

At(v, i) == IF i <= Len(v) THEN v[i] ELSE 0

VecSub(a, b) ==
    SubSeq([k \in 1..Max(Len(a), Len(b)) |-> At(a, k) - At(b, k)], 1, Max(Len(a), Len(b)))

VecAdd(a, b) ==
    SubSeq([k \in 1..Max(Len(a), Len(b)) |-> At(a, k) + At(b, k)], 1, Max(Len(a), Len(b)))

RECURSIVE ColSum(_, _, _, _, _)
ColSum(a, b, k, i, hi) ==
    IF i > hi THEN 0 ELSE a[i] * b[k + 1 - i] + ColSum(a, b, k, i + 1, hi)

VecMul(a, b) ==
    IF Len(a) = 0 \/ Len(b) = 0 THEN <<>>
    ELSE SubSeq([k \in 1..(Len(a) + Len(b) - 1) |->
                    ColSum(a, b, k, Max(1, k + 1 - Len(b)), Min(Len(a), k))],
                1, Len(a) + Len(b) - 1)

RECURSIVE Carry(_, _, _, _)
Carry(v, i, cin, acc) ==
    IF i > Len(v) \/ cin # cin \/ Len(acc) < 0 THEN Append(acc, cin)
    ELSE Carry(v, i + 1, (v[i] + cin) \div LimbBase, Append(acc, (v[i] + cin) % LimbBase))

Normalize(v) == Carry(v, 1, 0, <<>>)

IsNegativeVec(v) == v[Len(v)] < 0

RECURSIVE GeqFrom(_, _, _)
GeqFrom(a, b, i) ==
    IF i = 0 THEN TRUE
    ELSE IF At(a, i) # At(b, i) THEN At(a, i) > At(b, i)
    ELSE GeqFrom(a, b, i - 1)

Geq(a, b) == GeqFrom(a, b, Max(Len(a), Len(b)))

RECURSIVE BytesToLimbs(_)
BytesToLimbs(b) ==
    IF Len(b) = 0 THEN <<>>
    ELSE IF Len(b) = 1 THEN <<b[1]>>
    ELSE IF Len(b) = 2 THEN <<b[1] + 256 * (b[2] % 16), b[2] \div 16>>
    ELSE <<b[1] + 256 * (b[2] % 16), (b[2] \div 16) + 16 * b[3]>>
             \o BytesToLimbs(SubSeq(b, 4, Len(b)))

LimbsToBytes(v, n) ==
    [k \in 1..n |->
        IF k % 3 = 1 THEN At(v, 2 * (k \div 3) + 1) % 256
        ELSE IF k % 3 = 2 THEN (At(v, 2 * (k \div 3) + 1) \div 256)
                                   + 16 * (At(v, 2 * (k \div 3) + 2) % 16)
        ELSE At(v, 2 * (k \div 3)) \div 16]

-----------------------------------------------------------------------------
(* The internal scalar package: internal/scalar/scalar.go.  A uint64 is   *)
(* its eight little-endian bytes; a Scalar ([4]uint64, Montgomery domain)   *)
(* is the limb vector of the integer its four words hold.                   *)

order ==
    <<<<237, 211, 245, 92, 26, 99, 18, 88>>,
      <<214, 156, 247, 162, 222, 249, 222, 20>>,
      <<0, 0, 0, 0, 0, 0, 0, 0>>,
      <<0, 0, 0, 0, 0, 0, 0, 16>>>>

scOne ==
    BytesToLimbs(<<29, 149, 152, 141, 116, 49, 236, 214>>
                 \o <<112, 207, 125, 115, 244, 91, 239, 198>>
                 \o <<254, 255, 255, 255, 255, 255, 255, 255>>
                 \o <<255, 255, 255, 255, 255, 255, 255, 15>>)

ScalarLen == 32

WideLen == 64

orderLimbs == BytesToLimbs(order[1] \o order[2] \o order[3] \o order[4])

(* l = 2^252 + orderLow, and 2^252 is LimbBase^21: a vector is reduced by   *)
(* replacing its limbs from the 22nd on by minus their product by orderLow. *)
orderLow == SubSeq(orderLimbs, 1, 11)

Fold(v) ==
    IF Len(v) <= 21 THEN v
    ELSE Normalize(VecSub(SubSeq(v, 1, 21), VecMul(SubSeq(v, 22, Len(v)), orderLow)))

AddOrderIfNegative(v) ==
    IF IsNegativeVec(v) THEN Normalize(VecAdd(v, orderLimbs)) ELSE v

SubOrderIfNotLess(v) ==
    IF Geq(v, orderLimbs) THEN Normalize(VecSub(v, orderLimbs)) ELSE v

ModOrder(v) ==
    IF Len(v) < 0 THEN v
    ELSE SubSeq(SubOrderIfNotLess(AddOrderIfNegative(Fold(Fold(Fold(Fold(Normalize(v)))))))
                    \o [k \in 1..22 |-> 0], 1, 22)

(* 2^-256 mod l, the factor that leaves the Montgomery domain.              *)
montgomeryInverse ==
    BytesToLimbs(<<36, 13, 95, 61, 164, 204, 102, 199, 76, 117, 63, 151, 106, 198, 245, 183,
                   190, 54, 250, 143, 67, 117, 78, 97, 131, 145, 254, 38, 111, 108, 219, 9>>)

fiat_sc255_add(x, y) == ModOrder(VecAdd(x, y))

fiat_sc255_sub(x, y) == ModOrder(VecSub(x, y))

fiat_sc255_opp(x) == ModOrder(VecSub(<<>>, x))

\* The product by 2^-256 left unreduced.
fiat_sc255_from_montgomeryUnreduced(x) ==
    SubSeq(Normalize(VecMul(x, montgomeryInverse)), 1, 22)

fiat_sc255_from_montgomery(x) == ModOrder(VecMul(x, montgomeryInverse))

fiat_sc255_to_montgomery(x) == ModOrder(VecMul(x, scOne))

fiat_sc255_mul(x, y) == fiat_sc255_from_montgomery(ModOrder(VecMul(x, y)))

fiat_sc255_from_bytes(b) == BytesToLimbs(b)

fiat_sc255_to_bytes(x) == SubSeq(LimbsToBytes(x, ScalarLen), 1, ScalarLen)

scZero == [k \in 1..22 |-> 0]

Uint64(b, i) == SubSeq(b, 8 * i + 1, 8 * i + 8)

RECURSIVE CompareUint64(_, _, _)
CompareUint64(v, w, k) ==
    IF k = 0 THEN 0
    ELSE IF v[k] > w[k] THEN 1
    ELSE IF v[k] < w[k] THEN -1
    ELSE CompareUint64(v, w, k - 1)

RECURSIVE scMinimalLoop(_, _)
scMinimalLoop(sc, i) ==
    IF CompareUint64(Uint64(sc, i), order[i + 1], 8) = 1 THEN FALSE
    ELSE IF CompareUint64(Uint64(sc, i), order[i + 1], 8) = -1 THEN TRUE
    ELSE IF i = 0 THEN FALSE
    ELSE scMinimalLoop(sc, i - 1)

scMinimalAcceptsOrder(sc) ==
    /\ Len(sc) = ScalarLen
    /\ scMinimalLoop(sc, 3) \/ \A i \in 0..3 : Uint64(sc, i) = order[i + 1]

scMinimal(sc) == IF Len(sc) # ScalarLen THEN FALSE ELSE scMinimalLoop(sc, 3)

-----------------------------------------------------------------------------
(* scReduce.  An int64 is the pair <<hi, lo>> of its value hi * 2^21 + lo   *)
(* with 0 <= lo < 2^21, so that a 21-bit limb and the carry out of it are   *)
(* its two halves; the values of scReduce stay below 2^50.  S[i + 1] is the *)
(* source's s_i.                                                            *)

TwoTo21 == 2097152

Int64(hi, lo) == <<hi + (lo \div TwoTo21), lo % TwoTo21>>

Int64Add(a, b) == Int64(a[1] + b[1], a[2] + b[2])

Int64Sub(a, b) == Int64(a[1] - b[1], a[2] - b[2])

\* a * c for a constant 0 <= c < 2^20: lo is split at bit 11.
Int64Mul(a, c) ==
    Int64(a[1] * c + (((a[2] \div 2048) * c) \div 1024) + (((a[2] % 2048) * c) \div TwoTo21),
          ((((a[2] \div 2048) * c) % 1024) * 2048) + (((a[2] % 2048) * c) % TwoTo21))

RECURSIVE TwoTo(_)
TwoTo(k) == IF k = 0 THEN 1 ELSE 2 * TwoTo(k - 1)

\* a >> k, arithmetic, for 0 <= k <= 21.
ShiftRight(a, k) ==
    Int64(a[1] \div TwoTo(k), ((a[1] % TwoTo(k)) * TwoTo(21 - k)) + (a[2] \div TwoTo(k)))

\* a << k for 0 <= k <= 21.
ShiftLeft(a, k) ==
    Int64((a[1] * TwoTo(k)) + (a[2] \div TwoTo(21 - k)), (a[2] % TwoTo(21 - k)) * TwoTo(k))

\* 2097151 & a
Mask21(a) == <<0, a[2]>>

byte(a) == a[2] % 256

RECURSIVE ByteOr(_, _)
ByteOr(a, b) ==
    IF a = 0 THEN b
    ELSE IF b = 0 THEN a
    ELSE Max(a % 2, b % 2) + 2 * ByteOr(a \div 2, b \div 2)

load3(in, o) == Int64(0, in[o + 1] + 256 * in[o + 2] + 65536 * in[o + 3])

load4(in, o) ==
    Int64((in[o + 3] \div 32) + 8 * in[o + 4],
          in[o + 1] + 256 * in[o + 2] + 65536 * (in[o + 3] % 32))

scReduceLoad(in) ==
    <<Mask21(load3(in, 0)),
      Mask21(ShiftRight(load4(in, 2), 5)),
      Mask21(ShiftRight(load3(in, 5), 2)),
      Mask21(ShiftRight(load4(in, 7), 7)),
      Mask21(ShiftRight(load4(in, 10), 4)),
      Mask21(ShiftRight(load3(in, 13), 1)),
      Mask21(ShiftRight(load4(in, 15), 6)),
      Mask21(ShiftRight(load3(in, 18), 3)),
      Mask21(load3(in, 21)),
      Mask21(ShiftRight(load4(in, 23), 5)),
      Mask21(ShiftRight(load3(in, 26), 2)),
      Mask21(ShiftRight(load4(in, 28), 7)),
      Mask21(ShiftRight(load4(in, 31), 4)),
      Mask21(ShiftRight(load3(in, 34), 1)),
      Mask21(ShiftRight(load4(in, 36), 6)),
      Mask21(ShiftRight(load3(in, 39), 3)),
      Mask21(load3(in, 42)),
      Mask21(ShiftRight(load4(in, 44), 5)),
      Mask21(ShiftRight(load3(in, 47), 2)),
      Mask21(ShiftRight(load4(in, 49), 7)),
      Mask21(ShiftRight(load4(in, 52), 4)),
      Mask21(ShiftRight(load3(in, 55), 1)),
      Mask21(ShiftRight(load4(in, 57), 6)),
      ShiftRight(load4(in, 60), 3)>>

\* s_i += s_j * c
MulAdd(S, i, j, c) == [S EXCEPT ![i + 1] = Int64Add(S[i + 1], Int64Mul(S[j + 1], c))]

\* s_i -= s_j * c
MulSub(S, i, j, c) == [S EXCEPT ![i + 1] = Int64Sub(S[i + 1], Int64Mul(S[j + 1], c))]

\* The seven statements that fold s_j into s_(j-12) .. s_(j-7) and clear it.
scReduceFold(S, j) ==
    [MulSub(MulAdd(MulSub(MulAdd(MulAdd(MulAdd(S,
        j - 12, j, 666643),
        j - 11, j, 470296),
        j - 10, j, 654183),
        j - 9, j, 997805),
        j - 8, j, 136657),
        j - 7, j, 683901) EXCEPT ![j + 1] = <<0, 0>>]

\* s_(i+1) += carry; s_i -= carry << 21
scReduceCarry(S, i, carry) ==
    [S EXCEPT ![i + 2] = Int64Add(S[i + 2], carry),
              ![i + 1] = Int64Sub(S[i + 1], ShiftLeft(carry, 21))]

\* carry[i] = (s_i + (1 << 20)) >> 21
scReduceRound(S, i) ==
    scReduceCarry(S, i, ShiftRight(Int64Add(S[i + 1], <<0, 1048576>>), 21))

\* carry[i] = s_i >> 21
scReduceFloor(S, i) == scReduceCarry(S, i, ShiftRight(S[i + 1], 21))

\* The statements of scReduce without its last fold of s12 and the carries
\* that follow it.
scReduceStepsOnePass ==
    [j \in 1..6 |-> <<"fold", 24 - j>>]
    \o <<<<"round", 6>>, <<"round", 8>>, <<"round", 10>>, <<"round", 12>>, <<"round", 14>>,
         <<"round", 16>>>>
    \o <<<<"round", 7>>, <<"round", 9>>, <<"round", 11>>, <<"round", 13>>, <<"round", 15>>>>
    \o [j \in 1..6 |-> <<"fold", 18 - j>>]
    \o <<<<"round", 0>>, <<"round", 2>>, <<"round", 4>>, <<"round", 6>>, <<"round", 8>>,
         <<"round", 10>>>>
    \o <<<<"round", 1>>, <<"round", 3>>, <<"round", 5>>, <<"round", 7>>, <<"round", 9>>,
         <<"round", 11>>>>
    \o <<<<"fold", 12>>>>
    \o [j \in 1..12 |-> <<"floor", j - 1>>]

\* The statements of scReduce after the loads, in source order.
scReduceSteps ==
    [j \in 1..6 |-> <<"fold", 24 - j>>]
    \o <<<<"round", 6>>, <<"round", 8>>, <<"round", 10>>, <<"round", 12>>, <<"round", 14>>,
         <<"round", 16>>>>
    \o <<<<"round", 7>>, <<"round", 9>>, <<"round", 11>>, <<"round", 13>>, <<"round", 15>>>>
    \o [j \in 1..6 |-> <<"fold", 18 - j>>]
    \o <<<<"round", 0>>, <<"round", 2>>, <<"round", 4>>, <<"round", 6>>, <<"round", 8>>,
         <<"round", 10>>>>
    \o <<<<"round", 1>>, <<"round", 3>>, <<"round", 5>>, <<"round", 7>>, <<"round", 9>>,
         <<"round", 11>>>>
    \o <<<<"fold", 12>>>>
    \o [j \in 1..12 |-> <<"floor", j - 1>>]
    \o <<<<"fold", 12>>>>
    \o [j \in 1..11 |-> <<"floor", j - 1>>]

\* scReduce with the carries of its last two passes rounded like the earlier ones.
scReduceStepFloorAsRound(S, st) ==
    IF st[1] = "fold" THEN scReduceFold(S, st[2]) ELSE scReduceRound(S, st[2])

scReduceStep(S, st) ==
    IF st[1] = "fold" THEN scReduceFold(S, st[2])
    ELSE IF st[1] = "round" THEN scReduceRound(S, st[2])
    ELSE scReduceFloor(S, st[2])

\* Statements from..to of scReduceSteps applied to S.
RECURSIVE scReduceRun(_, _, _)
scReduceRun(S, from, to) ==
    IF Len(S) < 0 \/ from > to THEN S
    ELSE IF from = to THEN scReduceStep(S, scReduceSteps[from])
    ELSE scReduceRun(scReduceRun(S, from, (from + to) \div 2), ((from + to) \div 2) + 1, to)

scReduceOut(S) ==
    <<byte(ShiftRight(S[1], 0)),
      byte(ShiftRight(S[1], 8)),
      ByteOr(byte(ShiftRight(S[1], 16)), byte(ShiftLeft(S[2], 5))),
      byte(ShiftRight(S[2], 3)),
      byte(ShiftRight(S[2], 11)),
      ByteOr(byte(ShiftRight(S[2], 19)), byte(ShiftLeft(S[3], 2))),
      byte(ShiftRight(S[3], 6)),
      ByteOr(byte(ShiftRight(S[3], 14)), byte(ShiftLeft(S[4], 7))),
      byte(ShiftRight(S[4], 1)),
      byte(ShiftRight(S[4], 9)),
      ByteOr(byte(ShiftRight(S[4], 17)), byte(ShiftLeft(S[5], 4))),
      byte(ShiftRight(S[5], 4)),
      byte(ShiftRight(S[5], 12)),
      ByteOr(byte(ShiftRight(S[5], 20)), byte(ShiftLeft(S[6], 1))),
      byte(ShiftRight(S[6], 7)),
      ByteOr(byte(ShiftRight(S[6], 15)), byte(ShiftLeft(S[7], 6))),
      byte(ShiftRight(S[7], 2)),
      byte(ShiftRight(S[7], 10)),
      ByteOr(byte(ShiftRight(S[7], 18)), byte(ShiftLeft(S[8], 3))),
      byte(ShiftRight(S[8], 5)),
      byte(ShiftRight(S[8], 13)),
      byte(ShiftRight(S[9], 0)),
      byte(ShiftRight(S[9], 8)),
      ByteOr(byte(ShiftRight(S[9], 16)), byte(ShiftLeft(S[10], 5))),
      byte(ShiftRight(S[10], 3)),
      byte(ShiftRight(S[10], 11)),
      ByteOr(byte(ShiftRight(S[10], 19)), byte(ShiftLeft(S[11], 2))),
      byte(ShiftRight(S[11], 6)),
      ByteOr(byte(ShiftRight(S[11], 14)), byte(ShiftLeft(S[12], 7))),
      byte(ShiftRight(S[12], 1)),
      byte(ShiftRight(S[12], 9)),
      byte(ShiftRight(S[12], 17))>>

scReduce(in) == scReduceOut(scReduceRun(scReduceLoad(in), 1, Len(scReduceSteps)))

scFromUniformBytes(z, x) ==
    IF Len(x) # WideLen
    THEN [s |-> z, ret |-> "nil", err |-> errNil, panic |-> TRUE]
    ELSE [s |-> fiat_sc255_to_montgomery(fiat_sc255_from_bytes(scReduce(x))),
          ret |-> "recv", err |-> errNil, panic |-> FALSE]

-----------------------------------------------------------------------------
(* The methods of Scalar.                                                   *)

errInvalidScalarEncoding == "invalid scalar encoding"

scFromCanonicalBytes(z, x) ==
    IF Len(x) # ScalarLen
    THEN [s |-> z, ret |-> "none", err |-> errNil, panic |-> TRUE]
    ELSE IF ~scMinimal(x)
    THEN [s |-> z, ret |-> "none", err |-> errInvalidScalarEncoding, panic |-> FALSE]
    ELSE [s |-> fiat_sc255_to_montgomery(fiat_sc255_from_bytes(x)),
          ret |-> "none", err |-> errNil, panic |-> FALSE]

scBytesNoConversion(z) == fiat_sc255_to_bytes(z)

scBytes(z) == fiat_sc255_to_bytes(fiat_sc255_from_montgomery(z))

scEqual(z, t) == IF scBytes(z) = scBytes(t) THEN 1 ELSE 0

scAdd(x, y) == fiat_sc255_add(x, y)

scSub(x, y) == fiat_sc255_sub(x, y)

scNeg(x) == fiat_sc255_opp(x)

scMul(x, y) == fiat_sc255_mul(x, y)

\* z.pow2k(k): k squarings, halving k so that the evaluation stays shallow.
RECURSIVE pow2k(_, _)
pow2k(z, k) ==
    IF Len(z) < 0 \/ k = 0 THEN z
    ELSE IF k = 1 THEN scMul(z, z)
    ELSE pow2k(pow2k(z, k \div 2), k - (k \div 2))

\* table[0] = t; table[i+1] = table[i] * tt for i < 7.
RECURSIVE invTable(_, _)
invTable(table, tt) ==
    IF Len(table) = 8 THEN table
    ELSE invTable(Append(table, scMul(table[Len(table)], tt)), tt)

\* The (squarings, table index) pairs of Inv after *s = table[1/2].
invChain ==
    <<<<127 + 1, 1 \div 2>>, <<4 + 1, 9 \div 2>>, <<3 + 1, 11 \div 2>>, <<3 + 1, 13 \div 2>>,
      <<3 + 1, 15 \div 2>>, <<4 + 1, 7 \div 2>>, <<4 + 1, 15 \div 2>>, <<3 + 1, 5 \div 2>>,
      <<3 + 1, 1 \div 2>>, <<4 + 1, 15 \div 2>>, <<4 + 1, 15 \div 2>>, <<4 + 1, 7 \div 2>>,
      <<3 + 1, 3 \div 2>>, <<4 + 1, 11 \div 2>>, <<5 + 1, 11 \div 2>>, <<9 + 1, 9 \div 2>>,
      <<3 + 1, 3 \div 2>>, <<4 + 1, 3 \div 2>>, <<4 + 1, 3 \div 2>>, <<4 + 1, 9 \div 2>>,
      <<3 + 1, 7 \div 2>>, <<3 + 1, 3 \div 2>>, <<3 + 1, 13 \div 2>>, <<3 + 1, 7 \div 2>>,
      <<4 + 1, 9 \div 2>>, <<3 + 1, 15 \div 2>>, <<4 + 1, 11 \div 2>>>>

\* The step with pow2k(k) in place of pow2k(k + 1).
invStepSquareOnce(z, table, st) == scMul(pow2k(z, st[1] - 1), table[st[2] + 1])

\* s.pow2k(k); s.Mul(s, &table[i])
invStep(z, table, st) == scMul(pow2k(z, st[1]), table[st[2] + 1])

RECURSIVE invRun(_, _, _, _)
invRun(z, table, from, to) ==
    IF Len(z) < 0 \/ Len(table) < 0 \/ from > to THEN z
    ELSE IF from = to THEN invStep(z, table, invChain[from])
    ELSE invRun(invRun(z, table, from, (from + to) \div 2), table, ((from + to) \div 2) + 1, to)

invWithTable(table) == invRun(table[(1 \div 2) + 1], table, 1, Len(invChain))

scInv(t) == invWithTable(invTable(<<t>>, scMul(t, t)))

(* The public wrapper of the tree that embeds the internal package: Decode  *)
(* decodes into a temporary and copies it on success.                       *)
ScalarDecode(z, x) ==
    IF scFromCanonicalBytes(scZero, x).panic
    THEN [s |-> z, ret |-> "none", err |-> errNil, panic |-> TRUE]
    ELSE IF scFromCanonicalBytes(scZero, x).err # errNil
    THEN [s |-> z, ret |-> "none", err |-> errInvalidScalarEncoding, panic |-> FALSE]
    ELSE [s |-> scFromCanonicalBytes(scZero, x).s, ret |-> "none", err |-> errNil,
          panic |-> FALSE]

(* Byte slices.  A slice is its backing array, from the first byte of the   *)
(* slice to its capacity, and its length; two slices that share storage    *)
(* share buf.                                                               *)
Slice(buf, n) == [buf |-> buf, len |-> n]
SliceBytes(sl) == SubSeq(sl.buf, 1, sl.len)
Cap(sl) == Len(sl.buf)

\* sliceForAppend without copy(head, in) after the allocation.
sliceForAppendNoCopy(in, n) ==
    IF Cap(in) >= in.len + n
    THEN Slice(in.buf, in.len + n)
    ELSE Slice([k \in 1..(in.len + n) |-> 0], in.len + n)

\* sliceForAppend: head; tail is head[len(in):].
sliceForAppend(in, n) ==
    IF Cap(in) >= in.len + n
    THEN Slice(in.buf, in.len + n)
    ELSE Slice(SliceBytes(in) \o [k \in 1..n |-> 0], in.len + n)

\* copy(head[from:], src): Go copies the shorter of the two lengths.
copy(head, from, src) ==
    Slice([k \in 1..Cap(head) |->
              IF k > from /\ k <= from + Min(head.len - from, Len(src))
              THEN src[k - from]
              ELSE head.buf[k]],
          head.len)

\* Element.Encode and Scalar.Encode: the returned slice.
Encode(el, b) == copy(sliceForAppend(b, ElemLen), b.len, bytes(el))
ScalarEncode(z, b) == copy(sliceForAppend(b, ScalarLen), b.len, scBytes(z))

(* Text marshalling.  A text is the sequence of the codes of its            *)
(* characters; base64.StdEncoding is the alphabet A-Z a-z 0-9 + / with '='  *)
(* as padding.                                                              *)
encodeStd ==
    [k \in 1..64 |->
        IF k <= 26 THEN 64 + k
        ELSE IF k <= 52 THEN 96 + (k - 26)
        ELSE IF k <= 62 THEN 47 + (k - 52)
        ELSE IF k = 63 THEN 43 ELSE 47]

padChar == 61

errCorruptInput == "illegal base64 data"

\* EncodeToString: four characters for every three bytes, the last group
\* padded.
EncodeToString(src) ==
    [k \in 1..(4 * ((Len(src) + 2) \div 3)) |->
        LET g == (k - 1) \div 4
            j == (k - 1) % 4
            val == At(src, 3 * g + 1) * 65536 + At(src, 3 * g + 2) * 256
                       + At(src, 3 * g + 3)
        IN  IF j >= 2 /\ 3 * g + j > Len(src)
            THEN padChar
            ELSE encodeStd[((val \div TwoTo(6 * (3 - j))) % 64) + 1]]

\* The six bits of a character of the alphabet, 255 for any other character.
decodeMap(c) ==
    IF \E k \in 1..64 : encodeStd[k] = c
    THEN (CHOOSE k \in 1..64 : encodeStd[k] = c) - 1
    ELSE 255

\* The decoder skips carriage returns and line feeds.
stripNewlines(text) == SelectSeq(text, LAMBDA c : c \notin {10, 13})

\* The g-th group of four characters is well formed: padding only in the
\* last group, in its last character or its last two.
quantumOK(t, g) ==
    /\ decodeMap(t[4 * g + 1]) # 255
    /\ decodeMap(t[4 * g + 2]) # 255
    /\ \/ decodeMap(t[4 * g + 3]) # 255 /\ decodeMap(t[4 * g + 4]) # 255
       \/ /\ 4 * g + 4 = Len(t)
          /\ t[4 * g + 4] = padChar
          /\ decodeMap(t[4 * g + 3]) # 255 \/ t[4 * g + 3] = padChar

\* The 24 bits of the g-th group, padding read as zero bits.
quantumBits(t, g) ==
    (decodeMap(t[4 * g + 1]) % 64) * 262144 + (decodeMap(t[4 * g + 2]) % 64) * 4096
        + (decodeMap(t[4 * g + 3]) % 64) * 64 + (decodeMap(t[4 * g + 4]) % 64)

\* The number of padding characters at the end of a well-formed text.
padding(t) ==
    IF Len(t) = 0 \/ t[Len(t)] # padChar THEN 0
    ELSE IF t[Len(t) - 1] # padChar THEN 1 ELSE 2

\* DecodeString: the bytes and the error.  The bytes decoded before an
\* error are not used by any caller here and are left out.
decodeStripped(t) ==
    IF Len(t) % 4 # 0 \/ \E g \in 0..(Len(t) \div 4 - 1) : ~quantumOK(t, g)
    THEN [bytes |-> <<>>, err |-> errCorruptInput]
    ELSE [bytes |-> [k \in 1..(3 * (Len(t) \div 4) - padding(t)) |->
                        (quantumBits(t, (k - 1) \div 3)
                             \div TwoTo(8 * (2 - ((k - 1) % 3)))) % 256],
          err |-> errNil]

DecodeString(text) == decodeStripped(stripNewlines(text))

\* Element.MarshalText and Scalar.MarshalText: the text and the error.
MarshalText(el) ==
    [text |-> EncodeToString(SliceBytes(Encode(el, Slice(<<>>, 0)))), err |-> errNil]

ScalarMarshalText(z) ==
    [text |-> EncodeToString(SliceBytes(ScalarEncode(z, Slice(<<>>, 0)))),
     err |-> errNil]

\* UnmarshalText that returns the error of the decoder and never decodes.
UnmarshalTextNoDecode(el, text) ==
    [e |-> el, ret |-> "none", err |-> DecodeString(text).err, panic |-> FALSE]

\* Element.UnmarshalText and Scalar.UnmarshalText.
UnmarshalText(el, text) ==
    IF DecodeString(text).err = errNil
    THEN Decode(el, DecodeString(text).bytes)
    ELSE [e |-> el, ret |-> "none", err |-> DecodeString(text).err, panic |-> FALSE]

ScalarUnmarshalText(z, text) ==
    IF DecodeString(text).err = errNil
    THEN ScalarDecode(z, DecodeString(text).bytes)
    ELSE [s |-> z, ret |-> "none", err |-> DecodeString(text).err, panic |-> FALSE]

-----------------------------------------------------------------------------
(* The digit recodings of Scalar: SignedRadix16 and NonAdjacentForm.  An    *)
(* int8 result is wrapped into -128..127 wherever the source computes one.  *)

int8(x) == ((x + 128) % 256) - 128

highBitSet(byteRepr) == byteRepr[32] > 127

\* digits[2*i] = int8(byteRepr[i] & 15); digits[2*i+1] = int8((byteRepr[i] >> 4) & 15)
radix16Digits(byteRepr) ==
    SubSeq([k \in 1..64 |->
               IF k % 2 = 1 THEN int8(byteRepr[(k + 1) \div 2] % 16)
               ELSE int8((byteRepr[k \div 2] \div 16) % 16)], 1, 64)

\* digits[i] -= carry << 4; digits[i+1] += carry
recentreWith(digits, i, carry) ==
    [digits EXCEPT ![i + 1] = int8(digits[i + 1] - int8(carry * 16)),
                   ![i + 2] = int8(digits[i + 2] + carry)]

\* The recentring step with carry := digits[i] >> 4.
recentreStepNoRounding(digits, i) == recentreWith(digits, i, int8(digits[i + 1]) \div 16)

\* carry := (digits[i] + 8) >> 4
recentreStep(digits, i) == recentreWith(digits, i, int8(digits[i + 1] + 8) \div 16)

\* The recentring loop for i = from .. to.
RECURSIVE recentre(_, _, _)
recentre(digits, from, to) ==
    IF Len(digits) < 0 \/ from > to THEN digits
    ELSE IF from = to THEN recentreStep(digits, from)
    ELSE recentre(recentre(digits, from, (from + to) \div 2), ((from + to) \div 2) + 1, to)

signedRadix16(byteRepr) ==
    IF highBitSet(byteRepr) THEN [digits |-> <<>>, panic |-> TRUE]
    ELSE [digits |-> recentre(radix16Digits(byteRepr), 0, 62), panic |-> FALSE]

scSignedRadix16(z) == signedRadix16(scBytes(z))

\* Bit j of the uint64 v.
Uint64Bit(v, j) ==
    IF j < 0 \/ j > 63 THEN 0 ELSE (v[(j \div 8) + 1] \div TwoTo(j % 8)) % 2

\* Bit j of bitBuf at position pos: digits[indexU64] >> indexBit, or'ed with
\* digits[1+indexU64] << (64 - indexBit) when the window crosses the word.
bitBufBit(digits, pos, w, j) ==
    IF pos % 64 < 64 - w
    THEN Uint64Bit(digits[(pos \div 64) + 1], j + (pos % 64))
    ELSE Max(Uint64Bit(digits[(pos \div 64) + 1], j + (pos % 64)),
             Uint64Bit(digits[(pos \div 64) + 2], j - (64 - (pos % 64))))

\* bitBuf & windowMask, from bit j upwards.
RECURSIVE windowBits(_, _, _, _)
windowBits(digits, pos, w, j) ==
    IF j = w THEN 0
    ELSE bitBufBit(digits, pos, w, j) + 2 * windowBits(digits, pos, w, j + 1)

\* The loop body with pos += 1 after a nonzero digit.
nafWindowAdvanceOne(st, w, window) ==
    IF window % 2 = 0 THEN <<st[1] + 1, st[2], st[3]>>
    ELSE IF window < TwoTo(w) \div 2
    THEN <<st[1] + 1, 0, [st[3] EXCEPT ![st[1] + 1] = int8(window)]>>
    ELSE <<st[1] + 1, 1, [st[3] EXCEPT ![st[1] + 1] = int8(int8(window) - int8(TwoTo(w)))]>>

\* The loop body with the "pos += 1" of an even window left out.
nafWindowEvenStays(st, w, window) ==
    IF window % 2 = 0 THEN <<st[1], st[2], st[3]>>
    ELSE IF window < TwoTo(w) \div 2
    THEN <<st[1] + w, 0, [st[3] EXCEPT ![st[1] + 1] = int8(window)]>>
    ELSE <<st[1] + w, 1, [st[3] EXCEPT ![st[1] + 1] = int8(int8(window) - int8(TwoTo(w)))]>>

\* The body of the loop once window is known; st is <<pos, carry, naf>>.
nafWindow(st, w, window) ==
    IF window % 2 = 0 THEN <<st[1] + 1, st[2], st[3]>>
    ELSE IF window < TwoTo(w) \div 2
    THEN <<st[1] + w, 0, [st[3] EXCEPT ![st[1] + 1] = int8(window)]>>
    ELSE <<st[1] + w, 1, [st[3] EXCEPT ![st[1] + 1] = int8(int8(window) - int8(TwoTo(w)))]>>

\* One turn of "for pos < 256".
nafStep(st, digits, w) ==
    IF st[1] >= 256 THEN st
    ELSE nafWindow(st, w, st[2] + windowBits(digits, st[1], w, 0))

\* n turns of the loop.
RECURSIVE nafLoop(_, _, _, _)
nafLoop(st, digits, w, n) ==
    IF Len(st) < 0 \/ n = 0 THEN st
    ELSE IF n = 1 THEN nafStep(st, digits, w)
    ELSE nafLoop(nafLoop(st, digits, w, n \div 2), digits, w, n - (n \div 2))

\* var digits [5]uint64, of which the loop "for i < 4" fills digits[0..3].
nafDigits(byteRepr) ==
    [i \in 1..5 |-> IF i < 5 THEN Uint64(byteRepr, i - 1)
                    ELSE <<0, 0, 0, 0, 0, 0, 0, 0>>]

\* The indexes of digits that the computation of bitBuf reads at pos.
nafDigitsRead(pos, w) ==
    IF pos % 64 < 64 - w THEN {pos \div 64}
    ELSE {pos \div 64, 1 + (pos \div 64)}

\* The indexes of naf that the turn of the loop at st writes.
nafWritten(st, digits, w) ==
    IF (st[2] + windowBits(digits, st[1], w, 0)) % 2 = 0 THEN {} ELSE {st[1]}

nonAdjacentForm(byteRepr, w) ==
    IF highBitSet(byteRepr) \/ w < 2 \/ w > 8 THEN [naf |-> <<>>, panic |-> TRUE]
    ELSE [naf |-> nafLoop(<<0, 0, [k \in 1..256 |-> 0]>>, nafDigits(byteRepr), w, 256)[3],
          panic |-> FALSE]

scNonAdjacentForm(z, w) == nonAdjacentForm(scBytes(z), w)

---------------------------------------------------------------------------
(* Inputs.                                                                 *)

\* Calls made in one run of the Element interface.
MaxOps == 3

\* Every byte slice of exactly n bytes.
RECURSIVE SlicesOfLen(_)
SlicesOfLen(n) ==
    IF n = 0 THEN {<<>>}
    ELSE {<<b>> \o t : b \in Byte, t \in SlicesOfLen(n - 1)}

\* Slices of a wrong length for a canonical encoding.
WrongLenCanonical == {<<>>, <<0, 0>>, <<106, 0>>, <<4, 128>>}

\* Slices of a wrong length for a uniform input.
WrongLenUniform == {<<>>, <<0>>, <<106>>, <<1, 2, 3>>}

DecodeInputs == SlicesOfLen(ElemLen) \cup WrongLenCanonical

\* Bytes at the edges of the parse: 0, 1, p - 1, p, the largest byte with a
\* clear top bit, and bytes with the top bit set.
HalfSample == {0, 1, 108, 109, 127, 128, 236, 255}

\* Every pair of field elements, every byte in each half against the
\* sample in the other, and the wrong lengths.
UniformInputs ==
    {<<b1, b2>> : b1 \in Fe, b2 \in Fe}
        \cup {<<b1, b2>> : b1 \in Byte, b2 \in HalfSample}
        \cup {<<b1, b2>> : b1 \in HalfSample, b2 \in Byte}
        \cup WrongLenUniform

\* The inputs of the interface run: encodings of small multiples of the
\* generator, one input for each way decoding fails, and wrong lengths.
CanonicalSample ==
    {<<0>>, <<106>>, <<4>>, <<68>>, <<1>>, <<12>>, <<8>>, <<108>>, <<109>>,
     <<128>>, <<>>, <<4, 0>>}

UniformSample ==
    {<<0, 0>>, <<1, 2>>, <<129, 2>>, <<1, 130>>, <<110, 255>>, <<7>>,
     <<1, 2, 3>>}

\* Receivers of a single call: the identity, the generator, and 2*generator
\* as Add leaves it.
Receivers ==
    {NewIdentityElement, NewGeneratorElement,
     Add(NewGeneratorElement, NewGeneratorElement),
     Add(Add(NewGeneratorElement, NewGeneratorElement), NewGeneratorElement)}

---------------------------------------------------------------------------
(* Calls.  A call records the receiver as it was, the input, and what the  *)
(* call returned.                                                          *)

\* A call on the Element receiver with outcome r.
ElementCall(name, in, r) ==
    /\ op' = name
    /\ arg' = in
    /\ pre' = e
    /\ e' = r.e
    /\ ret' = r.ret
    /\ err' = r.err
    /\ panicked' = r.panic
    /\ nops' = nops + 1
    /\ UNCHANGED <<q, s, preS>>

\* A call on the Scalar receiver with outcome r.
ScalarCall(name, in, r) ==
    /\ op' = name
    /\ arg' = in
    /\ preS' = s
    /\ s' = r.s
    /\ ret' = r.ret
    /\ err' = r.err
    /\ panicked' = r.panic
    /\ nops' = nops + 1
    /\ UNCHANGED <<e, q, pre>>

\* A group operation storing pt in e.
GroupCall(name, pt) ==
    ElementCall(name, <<>>,
                [e |-> pt, ret |-> "recv", err |-> errNil, panic |-> FALSE])

InitWith(receivers, others, scalars) ==
    /\ e \in receivers
    /\ q \in others
    /\ s \in scalars
    /\ op = "new"
    /\ arg = <<>>
    /\ pre = e
    /\ preS = s
    /\ err = errNil
    /\ ret = "recv"
    /\ panicked = FALSE
    /\ nops = 0

---------------------------------------------------------------------------
(* Spec: a run of the Element interface of at most MaxOps calls.           *)

Init == InitWith({NewIdentityElement, NewGeneratorElement},
                 {NewIdentityElement, NewGeneratorElement}, {0})

Running == ~panicked /\ nops < MaxOps

CallSetCanonicalBytes ==
    /\ Running
    /\ \E in \in CanonicalSample :
        ElementCall("SetCanonicalBytes", in, SetCanonicalBytes(e, in))

\* e.SetCanonicalBytes(x.Bytes()) for x the receiver or the other Element.
CallSetCanonicalBytesOfBytes ==
    /\ Running
    /\ \E x \in {e, q} :
        ElementCall("SetCanonicalBytes", bytes(x), SetCanonicalBytes(e, bytes(x)))

CallSetUniformBytes ==
    /\ Running
    /\ \E b \in UniformSample :
        ElementCall("SetUniformBytes", b, SetUniformBytes(e, b))

CallAdd ==
    /\ Running
    /\ \E p1 \in {e, q}, p2 \in {e, q} : GroupCall("Add", Add(p1, p2))

CallSubtract ==
    /\ Running
    /\ \E p1 \in {e, q}, p2 \in {e, q} : GroupCall("Subtract", Subtract(p1, p2))

CallNegate ==
    /\ Running
    /\ \E p1 \in {e, q} : GroupCall("Negate", Negate(p1))

\* e.Zero() and e.Base().
CallZero == Running /\ GroupCall("Zero", NewIdentityElement)
CallBase == Running /\ GroupCall("Base", NewGeneratorElement)

\* q.Set(e).
CallSet ==
    /\ Running
    /\ q' = e
    /\ op' = "Set"
    /\ arg' = <<>>
    /\ pre' = e
    /\ ret' = "recv"
    /\ err' = errNil
    /\ nops' = nops + 1
    /\ UNCHANGED <<e, s, preS, panicked>>

Next ==
    \/ CallSetCanonicalBytes
    \/ CallSetCanonicalBytesOfBytes
    \/ CallSetUniformBytes
    \/ CallAdd
    \/ CallSubtract
    \/ CallNegate
    \/ CallZero
    \/ CallBase
    \/ CallSet

Spec == Init /\ [][Next]_vars

---------------------------------------------------------------------------
(* SpecDecode: one decoding call, on every input, from each receiver.      *)

Fresh == op = "new"

InitDecode == InitWith(Receivers, {NewIdentityElement}, {0})

DecodeSetCanonicalBytes ==
    /\ Fresh
    /\ \E in \in DecodeInputs :
        ElementCall("SetCanonicalBytes", in, SetCanonicalBytes(e, in))

DecodeDecode ==
    /\ Fresh
    /\ \E in \in DecodeInputs : ElementCall("Decode", in, Decode(e, in))

NextDecode == DecodeSetCanonicalBytes \/ DecodeDecode

SpecDecode == InitDecode /\ [][NextDecode]_vars

---------------------------------------------------------------------------
(* SpecUniform: one uniform-bytes call, on each of UniformInputs.           *)

\* The receivers hold 3*generator and the scalar 5.
InitUniform ==
    InitWith({Add(Add(NewGeneratorElement, NewGeneratorElement),
                  NewGeneratorElement)},
             {NewIdentityElement}, {5})

UniformSetUniformBytes ==
    /\ Fresh
    /\ \E b \in UniformInputs :
        ElementCall("SetUniformBytes", b, SetUniformBytes(e, b))

UniformFromUniformBytes ==
    /\ Fresh
    /\ \E b \in UniformSample :
        ElementCall("FromUniformBytes", b, FromUniformBytes(e, b))

UniformScalarSetUniformBytes ==
    /\ Fresh
    /\ \E x \in UniformSample :
        ScalarCall("Scalar.SetUniformBytes", x, ScalarSetUniformBytes(s, x))

UniformScalarFromUniformBytes ==
    /\ Fresh
    /\ \E x \in UniformSample :
        ScalarCall("Scalar.FromUniformBytes", x, ScalarFromUniformBytes(s, x))

NextUniform ==
    \/ UniformSetUniformBytes
    \/ UniformFromUniformBytes
    \/ UniformScalarSetUniformBytes
    \/ UniformScalarFromUniformBytes

SpecUniform == InitUniform /\ [][NextUniform]_vars

---------------------------------------------------------------------------
(* SpecV0: one call of the earlier source tree, on every input.            *)

InitV0 == InitWith(Receivers, {NewIdentityElement}, {0})

V0Decode ==
    /\ Fresh
    /\ \E in \in DecodeInputs : ElementCall("Decode", in, DecodeV0(e, in))

V0FromUniformBytes ==
    /\ Fresh
    /\ \E b \in UniformSample :
        ElementCall("FromUniformBytes", b, FromUniformBytesV0(e, b))

NextV0 == V0Decode \/ V0FromUniformBytes

SpecV0 == InitV0 /\ [][NextV0]_vars

---------------------------------------------------------------------------
(* SpecMulti: one multi-scalar multiplication, on slices of every length   *)
(* up to MaxSlice.                                                         *)

\* The longest slice passed to a multi-scalar multiplication.
MaxSlice == 2

\* Every sequence over S of at most n entries.
RECURSIVE SlicesUpTo(_, _)
SlicesUpTo(S, n) ==
    IF n = 0 THEN {<<>>}
    ELSE SlicesUpTo(S, n - 1)
            \cup {<<x>> \o t : x \in S, t \in {u \in SlicesUpTo(S, n - 1) : Len(u) = n - 1}}

\* The scalars of the slices: 0, 1, and two larger values.
ScalarSample == {0, 1, 5, 12}

InitMulti == InitWith(Receivers, {NewGeneratorElement}, {5})

\* e.MultiScalarMult(sc, p), the points among the receiver and q.  The
\* call records the two slices as <<sc, p>>.
MultiMultiScalarMult ==
    /\ Fresh
    /\ \E sc \in SlicesUpTo(ScalarSample, MaxSlice),
          p \in SlicesUpTo({e, q}, MaxSlice) :
        ElementCall("MultiScalarMult", <<sc, p>>, MultiScalarMult(e, sc, p))

MultiVarTimeMultiScalarMult ==
    /\ Fresh
    /\ \E sc \in SlicesUpTo(ScalarSample, MaxSlice),
          p \in SlicesUpTo({e, q}, MaxSlice) :
        ElementCall("VarTimeMultiScalarMult", <<sc, p>>,
                    VarTimeMultiScalarMult(e, sc, p))

NextMulti == MultiMultiScalarMult \/ MultiVarTimeMultiScalarMult

SpecMulti == InitMulti /\ [][NextMulti]_vars

-----------------------------------------------------------------------------
(* SpecScalar: one decoding call of the internal scalar package on 32-byte  *)
(* strings at and around the group order, and on slices of other lengths.   *)

orderBytes == order[1] \o order[2] \o order[3] \o order[4]

BytesOf(n, b) == [k \in 1..n |-> b]

\* The order with one byte moved by one, wherever that is still a byte.
NearOrder ==
    {[orderBytes EXCEPT ![k] = orderBytes[k] + d] : k \in 1..ScalarLen, d \in {-1, 1}}
        \cap [1..ScalarLen -> Byte]

ScalarInputs ==
    NearOrder \cup
    {orderBytes, BytesOf(ScalarLen, 0), BytesOf(ScalarLen, 255),
     [BytesOf(ScalarLen, 0) EXCEPT ![1] = 1],
     [BytesOf(ScalarLen, 0) EXCEPT ![ScalarLen] = 128],
     [BytesOf(ScalarLen, 0) EXCEPT ![ScalarLen] = 16],
     [BytesOf(ScalarLen, 255) EXCEPT ![ScalarLen] = 15],
     [orderBytes EXCEPT ![ScalarLen] = 144]}

WrongLenScalar == {<<>>, BytesOf(ScalarLen - 1, 0), BytesOf(ScalarLen + 1, 0)}

ScalarReceivers ==
    {scZero, scOne, fiat_sc255_to_montgomery(fiat_sc255_from_bytes(BytesOf(ScalarLen, 7)))}

InitScalar == InitWith({NewIdentityElement}, {NewIdentityElement}, ScalarReceivers)

ScalarFromCanonicalBytesCall ==
    /\ Fresh
    /\ \E x \in ScalarInputs \cup WrongLenScalar :
        ScalarCall("scalar.FromCanonicalBytes", x, scFromCanonicalBytes(s, x))

ScalarDecodeCall ==
    /\ Fresh
    /\ \E x \in ScalarInputs \cup WrongLenScalar :
        ScalarCall("Scalar.Decode", x, ScalarDecode(s, x))

NextScalar ==
    \/ ScalarFromCanonicalBytesCall
    \/ ScalarDecodeCall

SpecScalar == InitScalar /\ [][NextScalar]_vars

-----------------------------------------------------------------------------
(* SpecWide: one FromUniformBytes call of the internal scalar package on    *)
(* 64-byte strings: multiples of the order and their neighbours, strings    *)
(* with one byte set or one byte cleared, and constant strings.             *)

\* The multipliers k of the sampled multiples k * l.
OrderMultipliers ==
    {<<1>>, <<2>>, <<3>>, <<4095>>, <<0, 1>>, BytesToLimbs(BytesOf(16, 255)),
     BytesToLimbs(BytesOf(ScalarLen, 255)), BytesToLimbs(BytesOf(ScalarLen, 85)),
     BytesToLimbs([BytesOf(ScalarLen, 0) EXCEPT ![ScalarLen] = 128])}

WideBytes(v) == SubSeq(LimbsToBytes(Normalize(v), WideLen), 1, WideLen)

NearMultiples ==
    {WideBytes(VecAdd(VecMul(orderLimbs, k), <<d>>)) : k \in OrderMultipliers, d \in {-1, 0, 1}}

WideInputs ==
    NearMultiples \cup
    {[BytesOf(WideLen, 0) EXCEPT ![k] = b] : k \in 1..WideLen, b \in {1, 255}} \cup
    {[BytesOf(WideLen, 255) EXCEPT ![k] = 0] : k \in 1..WideLen} \cup
    {BytesOf(WideLen, b) : b \in {0, 1, 127, 128, 255}}

WrongLenWide == {<<>>, BytesOf(ScalarLen, 1), BytesOf(WideLen - 1, 0), BytesOf(WideLen + 1, 0)}

InitWide == InitWith({NewIdentityElement}, {NewIdentityElement}, {scZero, scOne})

WideFromUniformBytes ==
    /\ Fresh
    /\ \E x \in WideInputs \cup WrongLenWide :
        ScalarCall("scalar.FromUniformBytes", x, scFromUniformBytes(s, x))

NextWide == WideFromUniformBytes

SpecWide == InitWide /\ [][NextWide]_vars

-----------------------------------------------------------------------------
(* SpecDigits: one digit recoding of a canonical scalar: SignedRadix16, or  *)
(* NonAdjacentForm at every width from 0 to MaxWidth.                       *)

MaxWidth == 10

\* Canonical encodings: small and large values, the largest scalar, the
\* powers of two at the top, and repeated byte patterns below 2^252.
DigitEncodings ==
    {BytesOf(ScalarLen, 0),
     [BytesOf(ScalarLen, 0) EXCEPT ![1] = 1],
     [BytesOf(ScalarLen, 0) EXCEPT ![1] = 8],
     [BytesOf(ScalarLen, 0) EXCEPT ![1] = 255],
     [BytesOf(ScalarLen, 0) EXCEPT ![ScalarLen] = 16],
     [BytesOf(ScalarLen, 0) EXCEPT ![ScalarLen] = 8],
     [orderBytes EXCEPT ![1] = orderBytes[1] - 1],
     [orderBytes EXCEPT ![1] = orderBytes[1] - 2],
     [orderBytes EXCEPT ![16] = 0]}
    \cup {[BytesOf(ScalarLen, b) EXCEPT ![ScalarLen] = t] :
              b \in {7, 8, 85, 119, 127, 128, 136, 170, 255}, t \in {0, 15}}

DigitScalars == {scFromCanonicalBytes(scZero, b).s : b \in DigitEncodings}

InitDigits == InitWith({NewIdentityElement}, {NewIdentityElement}, DigitScalars)

DigitsSignedRadix16 ==
    /\ Fresh
    /\ ScalarCall("scalar.SignedRadix16", <<>>,
                  [s |-> s, ret |-> scSignedRadix16(s).digits, err |-> errNil,
                   panic |-> scSignedRadix16(s).panic])

DigitsNonAdjacentForm ==
    /\ Fresh
    /\ \E w \in 0..MaxWidth :
        ScalarCall("scalar.NonAdjacentForm", <<w>>,
                   [s |-> s, ret |-> scNonAdjacentForm(s, w).naf, err |-> errNil,
                    panic |-> scNonAdjacentForm(s, w).panic])

NextDigits ==
    \/ DigitsSignedRadix16
    \/ DigitsNonAdjacentForm

SpecDigits == InitDigits /\ [][NextDigits]_vars

-----------------------------------------------------------------------------
(* SpecArith: a run of at most MaxScalarOps calls of the internal scalar    *)
(* package on one receiver, starting from the zero value of Scalar.         *)

MaxScalarOps == 2

\* The second operands of Add, Sub and Mul: l - 1 and 2^252 - 1.
ArithOperands ==
    {scFromCanonicalBytes(scZero, [orderBytes EXCEPT ![1] = orderBytes[1] - 1]).s,
     scFromCanonicalBytes(scZero, [BytesOf(ScalarLen, 255) EXCEPT ![ScalarLen] = 15]).s}

ArithWide == {BytesOf(WideLen, 255), [BytesOf(WideLen, 0) EXCEPT ![WideLen] = 128]}

ArithCanonical ==
    {[BytesOf(ScalarLen, 0) EXCEPT ![ScalarLen] = 16], orderBytes, BytesOf(ScalarLen, 255)}

InitArith == InitWith({NewIdentityElement}, {NewIdentityElement}, {scZero})

ArithRunning == nops < MaxScalarOps /\ ~panicked

Returned(z) == [s |-> z, ret |-> "recv", err |-> errNil, panic |-> FALSE]

ArithAdd ==
    /\ ArithRunning
    /\ \E y \in ArithOperands : ScalarCall("scalar.Add", y, Returned(scAdd(s, y)))

ArithSub ==
    /\ ArithRunning
    /\ \E y \in ArithOperands : ScalarCall("scalar.Sub", y, Returned(scSub(s, y)))

ArithNeg ==
    /\ ArithRunning
    /\ ScalarCall("scalar.Neg", <<>>, Returned(scNeg(s)))

ArithMul ==
    /\ ArithRunning
    /\ \E y \in ArithOperands : ScalarCall("scalar.Mul", y, Returned(scMul(s, y)))

ArithInv ==
    /\ ArithRunning
    /\ ScalarCall("scalar.Inv", <<>>, Returned(scInv(s)))

ArithZero ==
    /\ ArithRunning
    /\ ScalarCall("Scalar.Zero", <<>>, Returned(scZero))

ArithFromUniformBytes ==
    /\ ArithRunning
    /\ \E x \in ArithWide :
        ScalarCall("scalar.FromUniformBytes", x, scFromUniformBytes(s, x))

ArithFromCanonicalBytes ==
    /\ ArithRunning
    /\ \E x \in ArithCanonical :
        ScalarCall("scalar.FromCanonicalBytes", x, scFromCanonicalBytes(s, x))

NextArith ==
    \/ ArithAdd
    \/ ArithSub
    \/ ArithNeg
    \/ ArithMul
    \/ ArithInv
    \/ ArithZero
    \/ ArithFromUniformBytes
    \/ ArithFromCanonicalBytes

SpecArith == InitArith /\ [][NextArith]_vars

-----------------------------------------------------------------------------
(* SpecInv: Inv on the receiver itself, then one Mul of the result.          *)

InvEncodings ==
    {BytesOf(ScalarLen, 0),
     [BytesOf(ScalarLen, 0) EXCEPT ![1] = 1],
     [BytesOf(ScalarLen, 0) EXCEPT ![1] = 2],
     [BytesOf(ScalarLen, 0) EXCEPT ![ScalarLen] = 16],
     [orderBytes EXCEPT ![1] = orderBytes[1] - 1],
     [orderBytes EXCEPT ![1] = orderBytes[1] - 2],
     [orderBytes EXCEPT ![16] = 0],
     [BytesOf(ScalarLen, 255) EXCEPT ![ScalarLen] = 15],
     [BytesOf(ScalarLen, 85) EXCEPT ![ScalarLen] = 5],
     [BytesOf(ScalarLen, 7) EXCEPT ![ScalarLen] = 0],
     BytesOf(ScalarLen, 8),
     BytesOf(ScalarLen, 3)}

InvScalars == {scFromCanonicalBytes(scZero, b).s : b \in InvEncodings}

InitInv == InitWith({NewIdentityElement}, {NewIdentityElement}, InvScalars)

InvInv ==
    /\ Fresh
    /\ ScalarCall("scalar.Inv", <<>>, Returned(scInv(s)))

InvMul ==
    /\ op = "scalar.Inv"
    /\ \E y \in InvScalars \cup {preS} : ScalarCall("scalar.Mul", y, Returned(scMul(s, y)))

NextInv ==
    \/ InvInv
    \/ InvMul

SpecInv == InitInv /\ [][NextInv]_vars

-----------------------------------------------------------------------------
(* SpecSqrt: one call of feSqrtRatio, on every pair of field elements.      *)

InitSqrt == InitWith({NewIdentityElement}, {NewIdentityElement}, {0})

SqrtRatio ==
    /\ Fresh
    /\ \E u \in Fe, v \in Fe :
        /\ op' = "feSqrtRatio"
        /\ arg' = <<u, v>>
        /\ ret' = feSqrtRatio(u, v)
        /\ nops' = nops + 1
        /\ UNCHANGED <<e, q, s, pre, preS, err, panicked>>

NextSqrt == SqrtRatio

SpecSqrt == InitSqrt /\ [][NextSqrt]_vars

-----------------------------------------------------------------------------
(* The elliptic.Curve adapter of the Edwards curve: ed25519.go.  A big.Int  *)
(* is the limb vector of its value; curve.N is the order l of the scalar    *)
(* package.                                                                 *)

Reverse(b) == [k \in 1..Len(b) |-> b[Len(b) + 1 - k]]

\* big.Int.SetBytes: the value of a big-endian byte string.
bigSetBytes(in) == BytesToLimbs(Reverse(in))

RECURSIVE stripHighZeros(_)
stripHighZeros(b) ==
    IF Len(b) = 0 \/ b[Len(b)] # 0 THEN b
    ELSE stripHighZeros(SubSeq(b, 1, Len(b) - 1))

\* big.Int.Bytes: the big-endian bytes of a value, without leading zeros.
bigBytes(v) == Reverse(stripHighZeros(LimbsToBytes(v, 2 * Len(v))))

\* The end of scalarFromBytes: scBytes copied to the end of a buffer of 32
\* bytes, which is then reversed.  buf[32-len(scBytes):] is out of range
\* when scBytes is longer than the buffer.
scalarFromBytesCopy(scB) ==
    IF ScalarLen - Len(scB) < 0
    THEN [out |-> BytesOf(ScalarLen, 0), panic |-> TRUE]
    ELSE [out |-> [i \in 1..ScalarLen |->
                      (BytesOf(ScalarLen - Len(scB), 0) \o scB)[ScalarLen + 1 - i]],
          panic |-> FALSE]

\* scalarFromBytes without the reduction modulo curve.N.
scalarFromBytesNoMod(in) == scalarFromBytesCopy(bigBytes(bigSetBytes(in)))

\* scalarFromBytes: out, and whether an index was out of range.
scalarFromBytes(in) ==
    IF Geq(bigSetBytes(in), orderLimbs)
    THEN scalarFromBytesCopy(bigBytes(ModOrder(bigSetBytes(in))))
    ELSE scalarFromBytesCopy(bigBytes(bigSetBytes(in)))

(* SpecFromBytes: one scalarFromBytes call on big-endian strings of every   *)
(* length up to 32 + MaxExtra and of 64 bytes: constant strings, powers of  *)
(* 256, the order and its neighbours, with and without leading zeros.       *)

MaxExtra == 2

BigEndianInputs ==
    UNION {{BytesOf(n, 0), BytesOf(n, 255), BytesOf(n, 1),
            [k \in 1..n |-> IF k = 1 THEN 1 ELSE 0],
            [k \in 1..n |-> IF k = n THEN 1 ELSE 0]} :
               n \in 0..(ScalarLen + MaxExtra)}
    \cup {Reverse(x) : x \in NearOrder \cup {orderBytes}}
    \cup {<<0, 0>> \o Reverse(orderBytes), <<1>> \o Reverse(orderBytes),
          Reverse(orderBytes) \o <<0>>, BytesOf(WideLen, 255),
          <<32>> \o BytesOf(ScalarLen - 1, 0), <<16>> \o BytesOf(ScalarLen - 1, 255)}

InitFromBytes == InitWith({NewIdentityElement}, {NewIdentityElement}, {BytesOf(ScalarLen, 0)})

FromBytesCall ==
    /\ Fresh
    /\ \E in \in BigEndianInputs :
        /\ op' = "scalarFromBytes"
        /\ arg' = in
        /\ preS' = s
        /\ s' = scalarFromBytes(in).out
        /\ panicked' = scalarFromBytes(in).panic
        /\ nops' = nops + 1
        /\ UNCHANGED <<e, q, pre, err, ret>>

NextFromBytes == FromBytesCall

SpecFromBytes == InitFromBytes /\ [][NextFromBytes]_vars

-----------------------------------------------------------------------------
(* ScalarMult of the adapter, one loop iteration at a time.  The source     *)
(* holds three versions of it: ed25519.go (extendedAdd, Double into a       *)
(* completed element and ToExtended), and two in part_003 on the group      *)
(* package, whose Double takes no argument in the first and the element to  *)
(* double in the second.  The curve is the scaled one; the scalar and the   *)
(* loop keep their 256 bits.                                                *)

RECURSIVE fePow(_, _)
fePow(z, n) ==
    IF n = 0 THEN one
    ELSE IF n % 2 = 1 THEN FeMul(FeSquare(fePow(z, n \div 2)), z)
    ELSE FeSquare(fePow(z, n \div 2))

\* FeInvert: z^(p - 2).
FeInvert(z) == fePow(z, P - 2)

\* affineToExtended, FromAffine: (x, y) as (X : Y : Z : T) with Z = 1.
affineToExtended(x, y) == Point(x % P, y % P, one, FeMul(x % P, y % P))

\* extendedToAffine, ToAffine: (X/Z, Y/Z).
extendedToAffine(pt) ==
    <<FeMul(pt.X, FeInvert(pt.Z)), FeMul(pt.Y, FeInvert(pt.Z))>>

\* The doubling of the group package and of edwards25519: 2 * u, in any
\* representative.
geDouble(u) == extendedAdd(u, u)

\* Bit i of the little-endian scalar: (s[i/8] >> uint(i&7)) & 1.
ladderBit(sc, i) == (sc[(i \div 8) + 1] \div TwoTo(i % 8)) % 2

LadderBits == 8 * ScalarLen

ScalarMultVersions ==
    {"ScalarMult ed25519.go:108", "ScalarMult part_003:96", "ScalarMult part_003:254"}

\* The branch b == 0: r1 = r0 + r1, then r0 = 2 * r0.
ladderZero(r0, r1) == <<geDouble(r0), extendedAdd(r0, r1)>>

\* The else branch: r0 = r0 + r1, then r1 = 2 * r1; in the last version
\* of part_003 the statement is r1.Double(&r0), on the r0 just written.
ladderOne(version, r0, r1) ==
    IF version = "ScalarMult part_003:254"
    THEN <<extendedAdd(r0, r1), geDouble(extendedAdd(r0, r1))>>
    ELSE <<extendedAdd(r0, r1), geDouble(r1)>>

(* SpecLadder: one ScalarMult call.  e and q are r0 and r1, s the scalar    *)
(* scalarFromBytes wrote, arg the big-endian k, pre the point (x1, y1), op  *)
(* the version called, nops the iterations made, err the branch the last    *)
(* iteration took, ret the pair returned (empty until then); preS is the    *)
(* integer formed by the bits processed so far, kept modulo 8 * L, the      *)
(* exponent of the group of the scaled curve.                               *)

LadderPoints ==
    {extendedToAffine(NewGeneratorElement),
     extendedToAffine(extendedAdd(NewGeneratorElement, Point(sqrtM1, zero, one, zero))),
     extendedToAffine(extendedAdd(extendedAdd(NewGeneratorElement, NewGeneratorElement),
                                  NewGeneratorElement)),
     <<0, P - 1>>}

LadderScalars ==
    {<<>>, <<1>>, <<3>>, <<7>>, <<1, 0>>, <<181, 90>>,
     Reverse(orderBytes),
     Reverse([orderBytes EXCEPT ![1] = orderBytes[1] + 5]),
     Reverse([orderBytes EXCEPT ![1] = orderBytes[1] - 1]),
     BytesOf(ScalarLen, 255), BytesOf(ScalarLen + 1, 255)}

InitLadder == InitWith({NewIdentityElement}, {NewIdentityElement}, {BytesOf(ScalarLen, 0)})

LadderCall ==
    /\ Fresh
    /\ \E version \in ScalarMultVersions, pt \in LadderPoints, k \in LadderScalars :
        /\ op' = version
        /\ arg' = k
        /\ pre' = affineToExtended(pt[1], pt[2])
        /\ s' = scalarFromBytes(k).out
        /\ panicked' = scalarFromBytes(k).panic
        /\ e' = NewIdentityElement
        /\ q' = affineToExtended(pt[1], pt[2])
        /\ preS' = 0
        /\ nops' = 0
        /\ ret' = <<>>
        /\ err' = errNil

\* x1 == nil || y1 == nil: the identity is returned.
LadderCallNil ==
    /\ Fresh
    /\ \E k \in LadderScalars :
        /\ op' = "ScalarMult nil"
        /\ arg' = k
        /\ ret' = <<0, 1>>
        /\ UNCHANGED <<e, q, s, pre, preS, err, panicked, nops>>

LadderRunning == op \in ScalarMultVersions /\ ret = <<>> /\ ~panicked

LadderBitZero ==
    /\ LadderRunning
    /\ nops < LadderBits
    /\ ladderBit(s, LadderBits - 1 - nops) = 0
    /\ e' = ladderZero(e, q)[1]
    /\ q' = ladderZero(e, q)[2]
    /\ err' = "b == 0"
    /\ preS' = (2 * preS) % (8 * L)
    /\ nops' = nops + 1
    /\ UNCHANGED <<s, op, arg, pre, ret, panicked>>

LadderBitOne ==
    /\ LadderRunning
    /\ nops < LadderBits
    /\ ladderBit(s, LadderBits - 1 - nops) # 0
    /\ e' = ladderOne(op, e, q)[1]
    /\ q' = ladderOne(op, e, q)[2]
    /\ err' = "else"
    /\ preS' = (2 * preS + 1) % (8 * L)
    /\ nops' = nops + 1
    /\ UNCHANGED <<s, op, arg, pre, ret, panicked>>

LadderReturn ==
    /\ LadderRunning
    /\ nops = LadderBits
    /\ ret' = extendedToAffine(e)
    /\ UNCHANGED <<e, q, s, op, arg, pre, preS, err, panicked, nops>>

NextLadder ==
    \/ LadderCall
    \/ LadderCallNil
    \/ LadderBitZero
    \/ LadderBitOne
    \/ LadderReturn

SpecLadder == InitLadder /\ [][NextLadder]_vars

-----------------------------------------------------------------------------
(* SpecEncode: one Encode call on an Element or a Scalar, with slices of    *)
(* every length up to MaxPrefix and a capacity that does or does not hold   *)
(* the bytes appended.  The spare capacity of a slice holds old bytes.      *)

MaxPrefix == 2

\* The slices of length n with spare capacity in spare.
SlicesWithSpare(n, spare) ==
    {Slice(b \o [k \in 1..c |-> 170], n) : b \in [1..n -> {1, 254}], c \in spare}

ElementSlices ==
    UNION {SlicesWithSpare(n, 0..(ElemLen + 1)) : n \in 0..MaxPrefix}

ScalarSlices ==
    UNION {SlicesWithSpare(n, {0, ScalarLen - 1, ScalarLen, ScalarLen + 1}) :
               n \in 0..MaxPrefix}

InitEncode == InitWith(Receivers, {NewIdentityElement}, ScalarReceivers)

EncodeElement ==
    /\ Fresh
    /\ \E b \in ElementSlices :
        /\ op' = "Element.Encode"
        /\ arg' = b
        /\ ret' = Encode(e, b)
        /\ pre' = e
        /\ nops' = nops + 1
        /\ UNCHANGED <<e, q, s, preS, err, panicked>>

EncodeScalar ==
    /\ Fresh
    /\ \E b \in ScalarSlices :
        /\ op' = "Scalar.Encode"
        /\ arg' = b
        /\ ret' = ScalarEncode(s, b)
        /\ preS' = s
        /\ nops' = nops + 1
        /\ UNCHANGED <<e, q, s, pre, err, panicked>>

NextEncode ==
    \/ EncodeElement
    \/ EncodeScalar

SpecEncode == InitEncode /\ [][NextEncode]_vars

---------------------------------------------------------------------------
(* Properties of decoding (SpecDecode, SpecV0).                            *)

\* The last call was a decoding call.
IsDecodeCall == op \in {"SetCanonicalBytes", "Decode"}

\* C1.  On every byte slice on which SetCanonicalBytes or Decode returns an
\* error, the receiver's coordinates after the call are those before it.
\* Decode of src/ristretto255.go computes into &e.r and only then runs its
\* last three checks, so SpecV0 violates this.
C1_ReceiverUnchangedOnError ==
    (IsDecodeCall /\ err # errNil) => e = pre

\* Decode of src/ristretto255.go returned an error and the receiver changed.
C1_PartialWrite ==
    /\ op = "Decode"
    /\ err = errInvalidEncodingV0
    /\ arg = <<12>>
    /\ pre = NewGeneratorElement
    /\ e # pre

\* The conditions of acceptance, stated over the integers.  w is v * u2^2.
HasInvSqrt(w) == \E r \in Fe : (r * r * w) % P = 1

\* The non-negative r with r^2 * w = 1.
InvSqrt(w) == CHOOSE r \in Fe : (r * r * w) % P = 1 /\ r % 2 = 0

\* [wasSquare, T, Y] of the point the integer sv < p decodes to.
DecodedFromInteger(sv) ==
    LET ss == (sv * sv) % P
        u1 == (1 + P - ss) % P
        u2 == (1 + ss) % P
        v == (2 * P * P - ((D * u1 * u1) % P) - ((u2 * u2) % P)) % P
        w == (v * u2 * u2) % P
    IN  IF ~HasInvSqrt(w)
        THEN [wasSquare |-> FALSE, T |-> 0, Y |-> 0]
        ELSE LET invsqrt == InvSqrt(w)
                 den_x == (invsqrt * u2) % P
                 den_y == (((invsqrt * den_x) % P) * v) % P
                 x0 == (2 * sv * den_x) % P
                 x == IF x0 % 2 = 1 THEN P - x0 ELSE x0
                 y == (u1 * den_y) % P
             IN  [wasSquare |-> TRUE, T |-> (x * y) % P, Y |-> y]

\* len(in) = 32, in < p, s non-negative, was_square = 1, T non-negative, Y # 0.
Accepted(in) ==
    /\ Len(in) = ElemLen
    /\ LittleEndian(in) < P
    /\ LittleEndian(in) % 2 = 0
    /\ DecodedFromInteger(LittleEndian(in)).wasSquare
    /\ DecodedFromInteger(LittleEndian(in)).T % 2 = 0
    /\ DecodedFromInteger(LittleEndian(in)).Y # 0

\* C2.  SetCanonicalBytes(in) returns a nil error exactly when in has the
\* length of an encoding, is the canonical encoding of a field element, s is
\* non-negative, the square root exists, T is non-negative and Y is not 0;
\* every other input returns the invalid-encoding error.
C2_NilErrorIffAccepted ==
    IsDecodeCall =>
        /\ ~panicked
        /\ (err = errNil) <=> Accepted(arg)
        /\ err \in {errNil, errInvalidEncoding}
        /\ (ret = "recv") <=> (op = "SetCanonicalBytes" /\ err = errNil)

\* SetCanonicalBytes refused a canonical, non-negative s whose square root
\* exists and whose T is non-negative, because Y = 0.
C2_RejectedForYZero ==
    /\ op = "SetCanonicalBytes"
    /\ err = errInvalidEncoding
    /\ Len(arg) = ElemLen
    /\ LittleEndian(arg) < P
    /\ LittleEndian(arg) % 2 = 0
    /\ DecodedFromInteger(LittleEndian(arg)).wasSquare
    /\ DecodedFromInteger(LittleEndian(arg)).T % 2 = 0
    /\ DecodedFromInteger(LittleEndian(arg)).Y = 0

\* C3.  For every string x that SetCanonicalBytes (Decode) accepts, the
\* encoding of the decoded element is exactly x.
C3_EncodeOfDecode ==
    (IsDecodeCall /\ err = errNil /\ ~panicked) => bytes(e) = arg

\* The encoding of 2*generator was decoded into a receiver that held
\* another element.
C3_DecodedTwiceGenerator ==
    /\ op = "SetCanonicalBytes"
    /\ err = errNil
    /\ arg = <<4>>
    /\ pre = NewGeneratorElement
    /\ e # pre
    /\ bytes(e) = <<4>>

---------------------------------------------------------------------------
(* Properties of the Element interface (Spec).                             *)

\* C4.  For every Element obtained from the constructors and any sequence
\* of Add, Subtract and Negate, SetCanonicalBytes of its Bytes succeeds and
\* yields an element Equal to it.
C4_DecodeOfEncode ==
    ~panicked =>
        \A x \in {e, q} :
            /\ SetCanonicalBytes(NewIdentityElement, bytes(x)).err = errNil
            /\ SetCanonicalBytes(NewIdentityElement, bytes(x)).ret = "recv"
            /\ Equal(SetCanonicalBytes(NewIdentityElement, bytes(x)).e, x) = 1

\* The last of MaxOps calls left a sum with Z # 1, not the identity, that
\* is not the representative its encoding decodes to.
C4_SumOfHashedElement ==
    /\ op \in {"Add", "Subtract"}
    /\ nops = MaxOps
    /\ e.Z # 1
    /\ Equal(e, NewIdentityElement) = 0
    /\ SetCanonicalBytes(NewIdentityElement, bytes(e)).e # e
    /\ Equal(SetCanonicalBytes(NewIdentityElement, bytes(e)).e, e) = 1

\* C5.  Two Elements that are Equal have the same Bytes.
C5_EqualHaveSameBytes ==
    (~panicked /\ Equal(e, q) = 1) => bytes(e) = bytes(q)

\* Two different representatives of one class, not the identity, that do
\* not satisfy X1*Y2 = Y1*X2: they differ by a point of order 4.
C5_TwoRepresentatives ==
    /\ Equal(e, q) = 1
    /\ e # q
    /\ Equal(e, NewIdentityElement) = 0
    /\ (e.X * q.Y) % P # (e.Y * q.X) % P
    /\ bytes(e) = bytes(q)

\* Coordinates substituted for Z and T.
CoordSample == {0, 1, 2, 54, 108}

\* C6.  Equal returns 1 exactly when X1*Y2 = Y1*X2 or Y1*Y2 = X1*X2 modulo
\* p, and 0 otherwise; it is symmetric, it returns 1 for an element
\* compared with itself, and it does not depend on Z or T.
C6_EqualIsCrossProducts ==
    \A x \in {e, q, pre}, y \in {e, q, pre} :
        /\ Equal(x, y) \in {0, 1}
        /\ (Equal(x, y) = 1) <=>
               \/ (x.X * y.Y - x.Y * y.X) % P = 0
               \/ (x.Y * y.Y - x.X * y.X) % P = 0
        /\ Equal(x, y) = Equal(y, x)
        /\ Equal(x, x) = 1
        /\ \A z \in CoordSample, t \in CoordSample :
               /\ Equal(Point(x.X, x.Y, z, t), y) = Equal(x, y)
               /\ Equal(x, Point(y.X, y.Y, z, t)) = Equal(x, y)

\* Equal returned 1 by its second comparison only, and 0 on another pair.
C6_SecondComparisonOnly ==
    /\ Equal(e, q) = 1
    /\ (e.X * q.Y - e.Y * q.X) % P # 0
    /\ (e.Y * q.Y - e.X * q.X) % P = 0
    /\ Equal(e, pre) = 0

---------------------------------------------------------------------------
(* Properties of the uniform-bytes constructors (SpecUniform).             *)

\* 2 * pt.
Twice(pt) == extendedAdd(pt, pt)

\* n * pt by doubling and adding.
RECURSIVE MultipleOf(_, _)
MultipleOf(n, pt) ==
    IF n = 0 THEN NewIdentityElement
    ELSE IF n % 2 = 1
    THEN extendedAdd(Twice(MultipleOf(n \div 2, pt)), pt)
    ELSE Twice(MultipleOf(n \div 2, pt))

\* The point (0, Z, Z, 0), Z # 0.
IsNeutralPoint(pt) == pt.X = 0 /\ pt.Y = pt.Z /\ pt.Z # 0 /\ pt.T = 0

\* A valid internal representative: a point of the curve with Z # 0 in the
\* subgroup 2E, the points that 4*l sends to the neutral point.
IsValidElement(pt) ==
    /\ isOnCurve(pt)
    /\ pt.Z # 0
    /\ IsNeutralPoint(MultipleOf(4 * L, pt))

\* The field elements SetUniformBytes parses from the halves of b, the top
\* bit of each half masked off.
Half1(b) == (LittleEndian(SubSeq(b, 1, ElemLen)) % (2 ^ (8 * ElemLen - 1))) % P
Half2(b) ==
    (LittleEndian(SubSeq(b, ElemLen + 1, UniformLen)) % (2 ^ (8 * ElemLen - 1))) % P

\* The last call was SetUniformBytes or FromUniformBytes on an input of the
\* right length.
IsUniformCall ==
    /\ op \in {"SetUniformBytes", "FromUniformBytes"}
    /\ Len(arg) = UniformLen

\* C7.  For every input of the right length SetUniformBytes (and
\* FromUniformBytes) completes without panicking: each of the two
\* mapToPoint results satisfies the curve equation and X*Y = Z*T, and the
\* result is a valid element.
C7_UniformBytesNeverPanic ==
    IsUniformCall =>
        /\ ~panicked
        /\ err = errNil
        /\ ret = "recv"
        /\ \A m \in {mapToPoint(Half1(arg)), mapToPoint(Half2(arg))} :
               isOnCurve(m.pt) /\ ~m.panic
        /\ IsValidElement(e)
        /\ SetCanonicalBytes(NewIdentityElement, bytes(e)).err = errNil

\* SetUniformBytes mapped two different field elements and wrote their sum,
\* which is not the identity, over the receiver.
C7_BothBranchesMapped ==
    /\ op = "SetUniformBytes"
    /\ Len(arg) = UniformLen
    /\ Half1(arg) = 3
    /\ Half2(arg) = 5
    /\ e # pre
    /\ Equal(e, NewIdentityElement) = 0

\* One byte with its top bit flipped.
FlipTop(b) == (b + 128) % 256

\* b with bit 7 of the last byte of the first half, of the second half, or
\* of both flipped.
TopBitVariants(b) ==
    {<<FlipTop(b[1]), b[2]>>, <<b[1], FlipTop(b[2])>>,
     <<FlipTop(b[1]), FlipTop(b[2])>>}

\* C8.  SetUniformBytes(b) is MAP(t1) + MAP(t2) for t1 and t2 the field
\* elements parsed from the halves of b with the top bit of each masked
\* off; it is a function of b alone, and inputs that differ only in those
\* top bits give Equal elements with identical encodings.
C8_SumOfTwoMaps ==
    (op = "SetUniformBytes" /\ Len(arg) = UniformLen) =>
        /\ e = Add(mapToPoint(Half1(arg)).pt, mapToPoint(Half2(arg)).pt)
        /\ SetUniformBytes(NewIdentityElement, arg).e = e
        /\ \A b \in TopBitVariants(arg) :
               \A r \in {SetUniformBytes(pre, b)}, x \in {bytes(e)} :
                   /\ r.err = errNil
                   /\ Equal(r.e, e) = 1
                   /\ bytes(r.e) = x

\* SetUniformBytes ran on an input whose first half has its top bit set and
\* whose second half is at least p; the halves parse to different field
\* elements.
C8_TopBitSet ==
    /\ op = "SetUniformBytes"
    /\ arg = <<236, 127>>
    /\ Half1(arg) = 108
    /\ Half2(arg) = 18
    /\ e # pre
    /\ mapToPoint(Half1(arg)).pt # mapToPoint(Half2(arg)).pt

\* C10.  Scalar.SetUniformBytes and Element.SetUniformBytes, given a slice
\* of a wrong length, return a nil pointer and a non-nil error, leave the
\* receiver unchanged and do not panic.
C10_WrongLengthUniform ==
    (op \in {"SetUniformBytes", "Scalar.SetUniformBytes"}
        /\ Len(arg) # UniformLen) =>
        /\ ret = "nil"
        /\ err # errNil
        /\ e = pre
        /\ s = preS
        /\ ~panicked

\* Scalar.SetUniformBytes refused a slice of one byte that reduces to a
\* value other than the receiver's.
C10_ScalarRefusedShortSlice ==
    /\ op = "Scalar.SetUniformBytes"
    /\ arg = <<7>>
    /\ LittleEndian(arg) % L # preS
    /\ s = preS
    /\ ret = "nil"
    /\ err = errScalarUniformLength

---------------------------------------------------------------------------
(* The kind of error on a wrong length (SpecDecode).                       *)

\* C9.  A byte constructor given the wrong number of bytes reports an
\* error of a kind other than the invalid-encoding error.  SetCanonicalBytes
\* returns errInvalidEncoding for a wrong length as it does for a
\* non-canonical input of the right length, so SpecDecode violates this.
C9_WrongLengthIsItsOwnKind ==
    (IsDecodeCall /\ Len(arg) # ElemLen) =>
        /\ err # errNil
        /\ err # errInvalidEncoding

\* SetCanonicalBytes returned the invalid-encoding error for an empty slice.
C9_EmptySliceInvalidEncoding ==
    /\ op = "SetCanonicalBytes"
    /\ arg = <<>>
    /\ err = errInvalidEncoding
    /\ e = pre


---------------------------------------------------------------------------
(* Properties of the multi-scalar multiplications (SpecMulti).             *)

IsMultiCall == op \in {"MultiScalarMult", "VarTimeMultiScalarMult"}

\* C11.  MultiScalarMult and VarTimeMultiScalarMult panic exactly when the
\* two slices differ in length; the panic leaves the receiver, the other
\* Element and the Scalar as they were, and with equal lengths (both empty
\* included) the call returns its receiver.
C11_MismatchedLengthsPanic ==
    IsMultiCall =>
        /\ panicked <=> (Len(arg[1]) # Len(arg[2]))
        /\ panicked => (e = pre /\ s = preS /\ q = NewGeneratorElement)
        /\ ~panicked =>
            /\ ret = "recv"
            /\ isOnCurve(e)
            /\ Len(arg[1]) = 0 => e = NewIdentityElement

\* MultiScalarMult was given more points than scalars and panicked with
\* the receiver, which is not the identity, untouched.
C11_MorePointsThanScalars ==
    /\ op = "MultiScalarMult"
    /\ Len(arg[1]) = 1
    /\ Len(arg[2]) = 2
    /\ panicked
    /\ e = pre
    /\ e # NewIdentityElement

-----------------------------------------------------------------------------
(* Properties of the internal scalar package.                               *)

IsScalarDecodeCall == op \in {"scalar.FromCanonicalBytes", "Scalar.Decode"}

\* The little-endian integer of x is below the group order: x - l is negative.
BelowOrder(x) == IsNegativeVec(Normalize(VecSub(BytesToLimbs(x), orderLimbs)))

\* C12: a scalar decoding call on a 32-byte input returns no error exactly
\* when the little-endian integer of the input is below l, so l itself is
\* refused, and a refused input returns the error "invalid scalar encoding"
\* and leaves the receiver as it was before the call.
C12_CanonicalIffBelowOrder ==
    (IsScalarDecodeCall /\ Len(arg) = ScalarLen) =>
        /\ ~panicked
        /\ (err = errNil) <=> BelowOrder(arg)
        /\ arg = orderBytes => err # errNil
        /\ err # errNil => (err = errInvalidScalarEncoding /\ s = preS)

C12_OrderRefused ==
    /\ op = "scalar.FromCanonicalBytes"
    /\ arg = orderBytes
    /\ err = errInvalidScalarEncoding
    /\ s = preS
    /\ s # scZero


\* C13: decoding the 32-byte little-endian encoding of an integer below l
\* with FromCanonicalBytes succeeds, and Bytes of the decoded scalar is
\* that same byte string: entering and leaving the Montgomery domain is the
\* identity on canonical values.
C13_BytesOfFromCanonicalBytes ==
    (IsScalarDecodeCall /\ Len(arg) = ScalarLen /\ BelowOrder(arg)) =>
        /\ err = errNil
        /\ scBytes(s) = arg
        /\ Len(scBytes(s)) = ScalarLen

C13_LargestScalarRoundTrips ==
    /\ op = "scalar.FromCanonicalBytes"
    /\ arg = [orderBytes EXCEPT ![1] = orderBytes[1] - 1]
    /\ err = errNil
    /\ s # fiat_sc255_from_bytes(arg)
    /\ scBytes(s) = arg


\* The 32-byte little-endian encoding of the integer of x reduced modulo l.
ReducedBytes(x) == fiat_sc255_to_bytes(ModOrder(BytesToLimbs(x)))

\* C14: FromUniformBytes on a 64-byte input x sets the scalar to the 512-bit
\* little-endian integer of x modulo l: the 32 bytes written by scReduce
\* encode exactly x mod l, a value below l, and Bytes of the scalar returns
\* that encoding.
C14_UniformBytesReducedModOrder ==
    (op = "scalar.FromUniformBytes" /\ Len(arg) = WideLen) =>
        /\ ~panicked
        /\ scReduce(arg) = ReducedBytes(arg)
        /\ BelowOrder(scReduce(arg))
        /\ scBytes(s) = ReducedBytes(arg)

C14_LargestMultipleLessOne ==
    /\ op = "scalar.FromUniformBytes"
    /\ arg = WideBytes(VecAdd(VecMul(orderLimbs, BytesToLimbs(BytesOf(ScalarLen, 255))), <<-1>>))
    /\ ~panicked
    /\ scBytes(s) = [orderBytes EXCEPT ![1] = orderBytes[1] - 1]


\* The sum of per digits from d[per * i + 1] on, weighted by the powers of radix.
RECURSIVE DigitSum(_, _, _, _)
DigitSum(d, i, per, radix) ==
    IF per = 0 THEN 0 ELSE d[i + 1] + radix * DigitSum(d, i + 1, per - 1, radix)

\* The little-endian bytes of the weighted sum of the digits d, per digits to
\* a byte, followed by what is left over above the last byte.
RECURSIVE DigitBytes(_, _, _, _, _)
DigitBytes(d, per, radix, carry, acc) ==
    IF carry # carry \/ Len(acc) < 0 \/ Len(acc) = ScalarLen THEN Append(acc, carry)
    ELSE DigitBytes(d, per, radix,
                    (DigitSum(d, per * Len(acc), per, radix) + carry) \div 256,
                    Append(acc, (DigitSum(d, per * Len(acc), per, radix) + carry) % 256))

\* The recentring loop on unbounded integers.
RECURSIVE ExactRecentre(_, _, _)
ExactRecentre(digits, from, to) ==
    IF Len(digits) < 0 \/ from > to THEN digits
    ELSE IF from = to
    THEN [digits EXCEPT ![from + 1] = digits[from + 1] - 16 * ((digits[from + 1] + 8) \div 16),
                        ![from + 2] = digits[from + 2] + ((digits[from + 1] + 8) \div 16)]
    ELSE ExactRecentre(ExactRecentre(digits, from, (from + to) \div 2),
                       ((from + to) \div 2) + 1, to)

ExactRadix16(byteRepr) ==
    ExactRecentre(SubSeq([k \in 1..64 |->
                             IF k % 2 = 1 THEN byteRepr[(k + 1) \div 2] % 16
                             ELSE byteRepr[k \div 2] \div 16], 1, 64), 0, 62)

\* C17: SignedRadix16 of a canonical scalar returns 64 digits, each in
\* -8..8, whose sum weighted by the powers of 16 is the integer of the
\* scalar; the int8 arithmetic of the recentring loop never wraps, so the
\* digits are those of the same loop on unbounded integers.
C17_SignedRadix16Digits ==
    op = "scalar.SignedRadix16" =>
        /\ ~panicked
        /\ Len(ret) = 64
        /\ \A k \in 1..64 : ret[k] \in -8..8
        /\ DigitBytes(ret, 2, 16, 0, <<>>) = Append(scBytes(s), 0)
        /\ ret = ExactRadix16(scBytes(s))

C17_LargestScalarDigits ==
    /\ op = "scalar.SignedRadix16"
    /\ scBytes(s) = [orderBytes EXCEPT ![1] = orderBytes[1] - 1]
    /\ ~panicked
    /\ ret[1] = -4
    /\ ret[64] = 1

\* C18: NonAdjacentForm(w) of a canonical scalar panics for w < 2 and for
\* w > 8; for 2 <= w <= 8 it returns 256 digits whose sum weighted by the
\* powers of 2 is the integer of the scalar (nothing is left over above
\* digit 255), every nonzero digit is odd and strictly between -2^(w-1)
\* and 2^(w-1), and the w - 1 digits after a nonzero digit are zero.
C18_NonAdjacentFormDigits ==
    op = "scalar.NonAdjacentForm" =>
        /\ panicked <=> (arg[1] < 2 \/ arg[1] > 8)
        /\ ~panicked =>
            /\ Len(ret) = 256
            /\ DigitBytes(ret, 8, 2, 0, <<>>) = Append(scBytes(s), 0)
            /\ \A k \in 1..256 : ret[k] # 0 =>
                /\ ret[k] % 2 = 1
                /\ -TwoTo(arg[1] - 1) < ret[k]
                /\ ret[k] < TwoTo(arg[1] - 1)
                /\ \A j \in 1..(arg[1] - 1) : k + j <= 256 => ret[k + j] = 0

C18_WidthEightNegativeDigit ==
    /\ op = "scalar.NonAdjacentForm"
    /\ arg = <<8>>
    /\ ~panicked
    /\ \E k \in 1..256 : ret[k] < -64
    /\ \E k \in 250..256 : ret[k] # 0


C16_MulByInvIsOne ==
    (op = "scalar.Inv" /\ preS # scZero) =>
        /\ scMul(preS, s) = scOne
        /\ scBytes(scMul(s, preS)) = [BytesOf(ScalarLen, 0) EXCEPT ![1] = 1]

C16_InverseOfTwo ==
    /\ op = "scalar.Inv"
    /\ scBytes(preS) = [BytesOf(ScalarLen, 0) EXCEPT ![1] = 2]
    /\ s # preS
    /\ scAdd(s, s) = scOne
    /\ scMul(preS, s) = scOne


\* u/v is a square: some x has v * x^2 = u.
RatioIsSquare(u, v) == \E x \in Fe : FeMul(FeSquare(x), v) = u

\* The cases of feSqrtRatio on the inputs u, v with the outcome out.
SqrtRatioCases(u, v, out) ==
    /\ out.wasSquare \in {0, 1}
    /\ out.r \in Fe
    /\ FeIsNegative(out.r) = 0
    /\ u = 0 => (out.r = 0 /\ out.wasSquare = 1)
    /\ (u # 0 /\ v = 0) => (out.r = 0 /\ out.wasSquare = 0)
    /\ (u # 0 /\ v # 0 /\ RatioIsSquare(u, v)) =>
           (out.wasSquare = 1 /\ FeMul(v, FeSquare(out.r)) = u)
    /\ (u # 0 /\ v # 0 /\ ~RatioIsSquare(u, v)) =>
           (out.wasSquare = 0 /\ FeMul(v, FeSquare(out.r)) = FeMul(sqrtM1, u))

\* The outcomes on (0,0), (1,0), (2,1) and (4,1).
SqrtRatioVectors(u, v, out) ==
    /\ (u = zero /\ v = zero) => (out.r = zero /\ out.wasSquare = 1)
    /\ (u = one /\ v = zero) => (out.r = zero /\ out.wasSquare = 0)
    /\ (u = two /\ v = one) =>
           (FeSquare(out.r) = FeMul(two, sqrtM1) /\ out.wasSquare = 0)
    /\ (u = FeAdd(two, two) /\ v = one) => (out.r = two /\ out.wasSquare = 1)

\* C19: for all field elements u and v, feSqrtRatio returns a flag in {0,1}
\* and a non-negative r with: r = 0 and flag 1 if u = 0; r = 0 and flag 0 if
\* u # 0 and v = 0; flag 1 and v*r^2 = u if u, v # 0 and u/v is a square;
\* flag 0 and v*r^2 = sqrt(-1)*u otherwise.  In particular (0,0) -> (0,1),
\* (1,0) -> (0,0), (2,1) -> (sqrt(2i),0), (4,1) -> (2,1), and (1,4) gives
\* flag 1 with the non-negative root of 1/4, which is -1/2.
C19_SqrtRatioCases ==
    op = "feSqrtRatio" =>
        /\ SqrtRatioCases(arg[1], arg[2], ret)
        /\ SqrtRatioVectors(arg[1], arg[2], ret)
        /\ (arg[1] = one /\ arg[2] = FeAdd(two, two)) =>
               (FeMul(two, FeNeg(ret.r)) = one /\ ret.wasSquare = 1)

C19_OneOverFour ==
    /\ op = "feSqrtRatio"
    /\ arg = <<one, FeAdd(two, two)>>
    /\ ret.wasSquare = 1
    /\ FeMul(two, FeNeg(ret.r)) = one
    /\ FeMul(two, ret.r) # one

\* The statement with (1,4) -> (1/2, 1): r is the inverse of 2.
C19_OneOverFourIsHalf ==
    op = "feSqrtRatio" =>
        /\ SqrtRatioCases(arg[1], arg[2], ret)
        /\ SqrtRatioVectors(arg[1], arg[2], ret)
        /\ (arg[1] = one /\ arg[2] = FeAdd(two, two)) =>
               (FeMul(two, ret.r) = one /\ ret.wasSquare = 1)


\* The argument u1 * u2^2 of the square root taken by Element.bytes.
EncoderRootArgument(el) ==
    FeMul(FeMul(FeAdd(el.Z, el.Y), FeSub(el.Z, el.Y)), FeSquare(FeMul(el.X, el.Y)))

\* C20: the identity, as NewIdentityElement returns it and as Zero leaves
\* any receiver, has the coordinates (0, 1, 1, 0) and encodes to the
\* all-zero string although the encoder's square-root argument u1 * u2^2
\* is 0 for it; decoding the all-zero string succeeds and leaves an element
\* Equal to the identity.
C20_IdentityIsAllZero ==
    /\ NewIdentityElement = Point(zero, one, one, zero)
    /\ EncoderRootArgument(NewIdentityElement) = zero
    /\ bytes(NewIdentityElement) = BytesOf(ElemLen, 0)
    /\ op = "Zero" => (e = NewIdentityElement /\ bytes(e) = BytesOf(ElemLen, 0))
    /\ (op = "SetCanonicalBytes" /\ arg = BytesOf(ElemLen, 0)) =>
           /\ ~panicked
           /\ err = errNil
           /\ ret = "recv"
           /\ Equal(e, NewIdentityElement) = 1
           /\ bytes(e) = BytesOf(ElemLen, 0)

C20_ZeroBytesOverGenerator ==
    /\ op = "SetCanonicalBytes"
    /\ arg = BytesOf(ElemLen, 0)
    /\ pre = NewGeneratorElement
    /\ err = errNil
    /\ Equal(e, NewIdentityElement) = 1
    /\ Equal(e, pre) = 0


\* What Encode of a receiver with the encoding repr, n bytes long, returns.
Appended(repr, n) ==
    /\ Len(repr) = n
    /\ ret.len = arg.len + n
    /\ SubSeq(SliceBytes(ret), 1, arg.len) = SliceBytes(arg)
    /\ SubSeq(SliceBytes(ret), arg.len + 1, arg.len + n) = repr
    /\ Cap(ret) >= ret.len
    /\ Cap(arg) >= arg.len + n => Cap(ret) = Cap(arg)

\* C22: Encode(b) of an Element or a Scalar returns a slice of length
\* len(b) plus the length of an encoding (32; one byte for an Element of
\* the scaled field), whose first len(b) bytes are those of b and whose
\* last bytes are Bytes() of the receiver, both when the capacity of b
\* holds them and when a new slice is allocated; the receiver is not
\* written.
C22_EncodeAppendsBytes ==
    /\ op = "Element.Encode" => (Appended(bytes(e), ElemLen) /\ e = pre)
    /\ op = "Scalar.Encode" => (Appended(scBytes(s), ScalarLen) /\ s = preS)

C22_AllocatedForScalar ==
    /\ op = "Scalar.Encode"
    /\ arg.len = MaxPrefix
    /\ Cap(arg) = arg.len + ScalarLen - 1
    /\ Cap(ret) = arg.len + ScalarLen
    /\ SliceBytes(ret) = SliceBytes(arg) \o scBytes(s)
    /\ s = scOne


-----------------------------------------------------------------------------
(* SpecText: x.MarshalText() followed by y.UnmarshalText(text) for a new y, *)
(* on the text returned and on damaged copies of it.  After UnmarshalText   *)
(* the receiver is y, and pre or preS holds x.                              *)

\* new(Element): the zero value, which is no point of the curve.
newElement == Point(zero, zero, zero, zero)

TextElements ==
    {MultipleOf(n, NewGeneratorElement) : n \in 0..(L - 1)}
        \cup {SetUniformBytes(NewIdentityElement, b).e : b \in UniformSample}

TextScalars == DigitScalars

\* The text, the text with a line feed after it, without its last
\* character, with a character outside the alphabet, with another last
\* character before the padding, and the empty text.
Damaged(text) ==
    {text, Append(text, 10), SubSeq(text, 1, Len(text) - 1),
     [text EXCEPT ![1] = 45],
     [text EXCEPT ![Len(text) - padding(text)] = encodeStd[1]],
     [text EXCEPT ![Len(text) - padding(text)] = encodeStd[64]],
     <<>>}

InitText ==
    \/ InitWith(TextElements, {NewIdentityElement}, {scZero})
    \/ InitWith({NewIdentityElement}, {NewIdentityElement}, TextScalars)

TextMarshalElement ==
    /\ Fresh
    /\ op' = "Element.MarshalText"
    /\ arg' = MarshalText(e).text
    /\ err' = MarshalText(e).err
    /\ pre' = e
    /\ nops' = nops + 1
    /\ UNCHANGED <<e, q, s, preS, ret, panicked>>

TextUnmarshalElement ==
    /\ op = "Element.MarshalText"
    /\ \E text \in Damaged(arg) :
        /\ op' = "Element.UnmarshalText"
        /\ arg' = text
        /\ pre' = e
        /\ e' = UnmarshalText(newElement, text).e
        /\ ret' = UnmarshalText(newElement, text).ret
        /\ err' = UnmarshalText(newElement, text).err
        /\ panicked' = UnmarshalText(newElement, text).panic
        /\ nops' = nops + 1
        /\ UNCHANGED <<q, s, preS>>

TextMarshalScalar ==
    /\ Fresh
    /\ op' = "Scalar.MarshalText"
    /\ arg' = ScalarMarshalText(s).text
    /\ err' = ScalarMarshalText(s).err
    /\ preS' = s
    /\ nops' = nops + 1
    /\ UNCHANGED <<e, q, s, pre, ret, panicked>>

TextUnmarshalScalar ==
    /\ op = "Scalar.MarshalText"
    /\ \E text \in Damaged(arg) :
        /\ op' = "Scalar.UnmarshalText"
        /\ arg' = text
        /\ preS' = s
        /\ s' = ScalarUnmarshalText(scZero, text).s
        /\ ret' = ScalarUnmarshalText(scZero, text).ret
        /\ err' = ScalarUnmarshalText(scZero, text).err
        /\ panicked' = ScalarUnmarshalText(scZero, text).panic
        /\ nops' = nops + 1
        /\ UNCHANGED <<e, q, pre>>

NextText ==
    \/ TextMarshalElement
    \/ TextUnmarshalElement
    \/ TextMarshalScalar
    \/ TextUnmarshalScalar

SpecText == InitText /\ [][NextText]_vars

\* C21: MarshalText of a Scalar or of a valid Element returns no error,
\* and UnmarshalText of the text it returned, into a new value, returns no
\* error and leaves a value Equal to the one marshalled (for an Element,
\* also with the same encoding).
C21_TextRoundTrip ==
    /\ op \in {"Element.MarshalText", "Scalar.MarshalText"} => err = errNil
    /\ (op = "Element.UnmarshalText" /\ arg = MarshalText(pre).text) =>
           /\ err = errNil
           /\ ~panicked
           /\ Equal(e, pre) = 1
           /\ bytes(e) = bytes(pre)
    /\ (op = "Scalar.UnmarshalText" /\ arg = ScalarMarshalText(preS).text) =>
           /\ err = errNil
           /\ ~panicked
           /\ scEqual(s, preS) = 1

C21_LargestScalarAsText ==
    /\ op = "Scalar.UnmarshalText"
    /\ arg = ScalarMarshalText(preS).text
    /\ Len(arg) = 44
    /\ arg[44] = padChar
    /\ scBytes(preS) = [orderBytes EXCEPT ![1] = orderBytes[1] - 1]
    /\ err = errNil
    /\ scEqual(s, preS) = 1
    /\ s # scZero


\* The little-endian bytes of a big-endian string, extended to 64 bytes.
WideOfBigEndian(in) == Reverse(in) \o BytesOf(WideLen - Len(in), 0)

\* C27: scalarFromBytes(out, in), for a big-endian string in of any length
\* (empty and longer than 32 bytes included), writes the 32 little-endian
\* bytes of integer(in) mod N, padded with zeros at the high end, and no
\* index leaves the 32-byte buffers.  The reduced value is the one scReduce
\* computes from the same integer.
C27_ScalarFromBytesReduces ==
    op = "scalarFromBytes" =>
        /\ ~panicked
        /\ Len(s) = ScalarLen
        /\ s \in [1..ScalarLen -> Byte]
        /\ BelowOrder(s)
        /\ s = scReduce(WideOfBigEndian(arg))

C27_LongerThanTheBuffer ==
    /\ op = "scalarFromBytes"
    /\ Len(arg) = ScalarLen + MaxExtra
    /\ arg = BytesOf(ScalarLen + MaxExtra, 255)
    /\ ~panicked
    /\ s # BytesOf(ScalarLen, 0)
    /\ s[ScalarLen] < 16


\* Two representatives of one point of the curve.
SamePoint(a, b) ==
    /\ a.Z # zero
    /\ b.Z # zero
    /\ FeMul(a.X, b.Z) = FeMul(b.X, a.Z)
    /\ FeMul(a.Y, b.Z) = FeMul(b.Y, a.Z)

\* The value of little-endian bytes modulo n.
RECURSIVE LittleEndianMod(_, _)
LittleEndianMod(b, n) ==
    IF Len(b) = 0 THEN 0
    ELSE (b[1] + 256 * LittleEndianMod(Tail(b), n)) % n

\* The ladder is where the claim says: r0 = m * P and r1 = (m + 1) * P
\* after the iterations made, and the pair returned is (k mod N) * P.
LadderInvariant ==
    /\ SamePoint(e, MultipleOf(preS, pre))
    /\ SamePoint(q, MultipleOf(preS + 1, pre))
    /\ nops = LadderBits => preS = LittleEndianMod(s, 8 * L)
    /\ ret # <<>> =>
           ret = extendedToAffine(MultipleOf(LittleEndianMod(s, 8 * L), pre))

\* C23: in ScalarMult with non-nil coordinates, after each iteration of
\* the ladder, from bit 255 down to bit 0, r0 = m * P and r1 = (m + 1) * P
\* for m the integer formed by the bits processed so far, and the point
\* returned is (k mod N) * P, in every version of ScalarMult.
C23_LadderKeepsConsecutiveMultiples ==
    op \in ScalarMultVersions => LadderInvariant

\* The two versions whose else branch doubles r1.
C23_LadderOfDoubledR1 ==
    op \in ScalarMultVersions \ {"ScalarMult part_003:254"} => LadderInvariant

\* ScalarMult of part_003:254 on k = 7 and the base point returns 9 * P.
C23_SevenTimesIsNine ==
    /\ op = "ScalarMult part_003:254"
    /\ arg = <<7>>
    /\ pre = NewGeneratorElement
    /\ ret = extendedToAffine(MultipleOf(9, pre))
    /\ ret # extendedToAffine(MultipleOf(7, pre))


\* The branch an iteration on bit i takes when the scalar is zero.
BranchOfZeroScalar(i) ==
    IF ladderBit(BytesOf(ScalarLen, 0), i) = 0 THEN "b == 0" ELSE "else"

\* C26: ScalarMult returns after exactly 256 iterations of the ladder, and
\* the branch an iteration takes is the same for every scalar, that is,
\* the branch taken for the zero scalar: no branch on a bit of the scalar.
C26_BranchesSameForEveryScalar ==
    op \in ScalarMultVersions =>
        /\ nops <= LadderBits
        /\ ret # <<>> => nops = LadderBits
        /\ nops > 0 => err = BranchOfZeroScalar(LadderBits - nops)

\* The 256 iterations alone.
C26_ReturnsAfterAllBits ==
    op \in ScalarMultVersions =>
        /\ nops <= LadderBits
        /\ ret # <<>> => nops = LadderBits

\* The last iteration of ScalarMult on k = 1 takes the else branch.
C26_ElseBranchOnSetBit ==
    /\ op = "ScalarMult ed25519.go:108"
    /\ arg = <<1>>
    /\ nops = LadderBits
    /\ err = "else"
    /\ err # BranchOfZeroScalar(0)


-----------------------------------------------------------------------------
(* SpecEncoder: one call of the element encoder, Element.bytes of part_002  *)
(* or Element.Encode of ristretto255.go, on every multiple of the           *)
(* generator, its sums with the points of order 2 and 4, and the hashed     *)
(* elements.  ret holds u1, u2, invSqrt and the bytes returned.             *)

EncoderElements ==
    Receivers \cup TextElements
        \cup {extendedAdd(x, t) :
                  x \in TextElements,
                  t \in {Point(zero, minusOne, one, zero), Point(sqrtM1, zero, one, zero)}}

InitEncoder == InitWith(EncoderElements, {NewIdentityElement}, {0})

EncoderBytes ==
    /\ Fresh
    /\ op' = "Element.bytes"
    /\ ret' = [u1 |-> bytesU1(e), u2 |-> bytesU2(e), invSqrt |-> bytesInvSqrt(e),
               out |-> bytes(e)]
    /\ pre' = e
    /\ nops' = nops + 1
    /\ UNCHANGED <<e, q, s, arg, preS, err, panicked>>

EncoderEncodeV0 ==
    /\ Fresh
    /\ op' = "Element.Encode ristretto255.go"
    /\ ret' = [u1 |-> bytesU1(e), u2 |-> bytesU2(e), invSqrt |-> encodeInvSqrtV0(e),
               out |-> EncodeV0(e)]
    /\ pre' = e
    /\ nops' = nops + 1
    /\ UNCHANGED <<e, q, s, arg, preS, err, panicked>>

NextEncoder ==
    \/ EncoderBytes
    \/ EncoderEncodeV0

SpecEncoder == InitEncoder /\ [][NextEncoder]_vars

IsEncoderCall == op \in {"Element.bytes", "Element.Encode ristretto255.go"}

\* invSqrt is the inverse of a square root of u1 * u2^2, as
\* sqrt_ratio_i(1, u1 * u2^2) returns it, and the encoding made of
\* den1 = invSqrt * u1 and den2 = invSqrt * u2 is the canonical one.
InverseRootOfArgument ==
    /\ EncoderRootArgument(e) = FeMul(ret.u1, FeSquare(ret.u2))
    /\ ret.invSqrt = feSqrtRatio(one, EncoderRootArgument(e)).r
    /\ EncoderRootArgument(e) # zero =>
           FeMul(FeSquare(ret.invSqrt), EncoderRootArgument(e)) = one
    /\ ret.out = bytesRotate(e.X, e.Y, e.Z, e.T, ret.u1, ret.u2,
                             feSqrtRatio(one, EncoderRootArgument(e)).r)

\* C24: in the element encoder invsqrt is what sqrt_ratio_i returns for
\* the numerator 1 and the denominator u1 * u2^2, with u1 = (Z+Y)(Z-Y)
\* and u2 = X*Y, so that invsqrt^2 * u1 * u2^2 = 1 whenever u1 * u2^2 is
\* not zero, and den1, den2 and the bytes returned derive from that value.
C24_InvSqrtOfOneOverArgument ==
    IsEncoderCall => InverseRootOfArgument

\* The same for Element.bytes of part_002 alone.
C24_BytesInvSqrt ==
    op = "Element.bytes" => InverseRootOfArgument

\* Element.Encode of ristretto255.go on the generator: invSqrt is a root
\* of u1 / u2^2 and the bytes are not the encoding of the generator.
C24_RootOfQuotient ==
    /\ op = "Element.Encode ristretto255.go"
    /\ e = NewGeneratorElement
    /\ EncoderRootArgument(e) # zero
    /\ FeMul(FeSquare(ret.invSqrt), EncoderRootArgument(e)) # one
    /\ FeMul(FeSquare(ret.invSqrt), FeSquare(ret.u2)) = ret.u1
    /\ ret.out # bytes(e)


-----------------------------------------------------------------------------
(* SpecCoordinates: one construction of a point: extendedAdd on any two     *)
(* quadruples of coordinates, on the curve or not, mapToPoint on every      *)
(* field element, and the two decoders on every one-byte string.            *)

CoordPoints == {Point(x, y, z, t) : x \in {0, 1, 54}, y \in {1, 108}, z, t \in {0, 1, 54, 108}}

InitCoordinates ==
    InitWith({NewGeneratorElement}, {NewIdentityElement, NewGeneratorElement}, {0})

CoordinatesAdd ==
    /\ Fresh
    /\ \E p1 \in CoordPoints \cup {e}, p2 \in CoordPoints \cup {q} :
        /\ op' = "extendedAdd"
        /\ pre' = p1
        /\ q' = p2
        /\ e' = extendedAdd(p1, p2)
        /\ nops' = nops + 1
        /\ UNCHANGED <<s, arg, preS, err, ret, panicked>>

CoordinatesMap ==
    /\ Fresh
    /\ \E t \in Fe :
        /\ op' = "mapToPoint"
        /\ arg' = <<t>>
        /\ pre' = e
        /\ e' = mapToPoint(t).pt
        /\ panicked' = mapToPoint(t).panic
        /\ nops' = nops + 1
        /\ UNCHANGED <<q, s, preS, err, ret>>

CoordinatesSetCanonicalBytes ==
    /\ Fresh
    /\ \E in \in SlicesOfLen(ElemLen) :
        ElementCall("SetCanonicalBytes", in, SetCanonicalBytes(e, in))

CoordinatesDecodeV0 ==
    /\ Fresh
    /\ \E in \in SlicesOfLen(ElemLen) :
        ElementCall("Decode ristretto255.go", in, DecodeV0(e, in))

NextCoordinates ==
    \/ CoordinatesAdd
    \/ CoordinatesMap
    \/ CoordinatesSetCanonicalBytes
    \/ CoordinatesDecodeV0

SpecCoordinates == InitCoordinates /\ [][NextCoordinates]_vars

\* X*Y = Z*T modulo p.
ExtendedInvariant(pt) == FeMul(pt.X, pt.Y) = FeMul(pt.Z, pt.T)

\* C25: the points the library constructs keep X*Y = Z*T (mod p): the
\* output of extendedAdd for any two inputs, the output of mapToPoint for
\* any field element, and the point a successful decoding stores, which
\* also has Z = 1 and non-negative X and T.
C25_ExtendedCoordinatesInvariant ==
    /\ op \in {"extendedAdd", "mapToPoint"} => ExtendedInvariant(e)
    /\ (op \in {"SetCanonicalBytes", "Decode ristretto255.go"} /\ err = errNil) =>
           /\ ExtendedInvariant(e)
           /\ e.Z = one
           /\ FeIsNegative(e.X) = 0
           /\ FeIsNegative(e.T) = 0

C25_SumOffTheCurve ==
    /\ op = "extendedAdd"
    /\ ~isOnCurve(pre)
    /\ ~ExtendedInvariant(pre)
    /\ ~ExtendedInvariant(q)
    /\ e.X # zero
    /\ e.T # zero
    /\ ExtendedInvariant(e)


-----------------------------------------------------------------------------
(* SpecOnce: concurrent calls of Ed25519(), one goroutine each.  e maps a   *)
(* goroutine to its position, q to the parameters it saw when its call      *)
(* returned; s is ed25519Params with bigZero and bigOne, preS is once (the  *)
(* done flag and the holder of its mutex), ret the version of the file,     *)
(* nops the number of times initEd25519Params was entered and arg the       *)
(* number of writes of a parameter made after done was set.                 *)
(* sync.Once.Do loads done and returns when it is 1; otherwise it locks     *)
(* the mutex, loads done again, runs the function if it is still 0, stores  *)
(* done = 1 and unlocks.  The loads and the store are atomic.               *)

MaxGoroutines == 3

Goroutines == 1..MaxGoroutines

\* The assignments of initEd25519Params, in order: part_003 also assigns
\* bigZero and bigOne, which const.go initialises with the package.
initFields(version) ==
    IF version = "ed25519.go"
    THEN <<"P", "N", "B", "Gx", "Gy", "BitSize">>
    ELSE <<"P", "N", "B", "Gx", "Gy", "BitSize", "bigZero", "bigOne">>

\* The value an assignment of initEd25519Params leaves in a field.
initValue(field) == IF field = "BitSize" THEN 256 ELSE "set"

\* The parameters before any call: &elliptic.CurveParams{Name: "ed25519"}.
paramsAtStart(version) ==
    [P |-> "nil", N |-> "nil", B |-> "nil", Gx |-> "nil", Gy |-> "nil", BitSize |-> 0,
     bigZero |-> IF version = "ed25519.go" THEN "set" ELSE "nil",
     bigOne |-> IF version = "ed25519.go" THEN "set" ELSE "nil"]

Position(position, k) == [at |-> position, k |-> k]

\* Ed25519 that calls initEd25519Params itself, without once.Do.
Ed25519EntryNoOnce(done) == Position("init", 1)

\* Ed25519: once.Do(initEd25519Params), the first load of done.
Ed25519Entry(done) == IF done = 1 THEN Position("return", 0) ELSE Position("lock", 0)

InitOnce ==
    /\ e = [g \in Goroutines |-> Position("call", 0)]
    /\ q = [g \in Goroutines |-> <<>>]
    /\ ret \in {"ed25519.go", "part_003"}
    /\ s = paramsAtStart(ret)
    /\ preS = [done |-> 0, m |-> 0]
    /\ op = "new"
    /\ arg = 0
    /\ pre = NewIdentityElement
    /\ err = errNil
    /\ panicked = FALSE
    /\ nops = 0

OnceStep(g, name, position) ==
    /\ op' = name
    /\ e' = [e EXCEPT ![g] = position]
    /\ UNCHANGED <<pre, err, ret, panicked>>

OnceCall ==
    \E g \in Goroutines :
        /\ e[g].at = "call"
        /\ OnceStep(g, "Ed25519", Ed25519Entry(preS.done))
        /\ nops' = nops + (IF Ed25519Entry(preS.done).at = "init" THEN 1 ELSE 0)
        /\ UNCHANGED <<q, s, preS, arg>>

OnceLock ==
    \E g \in Goroutines :
        /\ e[g].at = "lock"
        /\ preS.m = 0
        /\ OnceStep(g, "m.Lock", Position("recheck", 0))
        /\ preS' = [preS EXCEPT !.m = g]
        /\ UNCHANGED <<q, s, arg, nops>>

OnceRecheck ==
    \E g \in Goroutines :
        /\ e[g].at = "recheck"
        /\ OnceStep(g, "o.done == 0",
                    IF preS.done = 0 THEN Position("init", 1) ELSE Position("unlock", 0))
        /\ nops' = nops + (IF preS.done = 0 THEN 1 ELSE 0)
        /\ UNCHANGED <<q, s, preS, arg>>

OnceInit ==
    \E g \in Goroutines :
        /\ e[g].at = "init"
        /\ OnceStep(g, "initEd25519Params",
                    IF e[g].k = Len(initFields(ret)) THEN Position("store", 0)
                    ELSE Position("init", e[g].k + 1))
        /\ s' = [s EXCEPT ![initFields(ret)[e[g].k]] = initValue(initFields(ret)[e[g].k])]
        /\ arg' = arg + (IF preS.done = 1 THEN 1 ELSE 0)
        /\ UNCHANGED <<q, preS, nops>>

OnceStore ==
    \E g \in Goroutines :
        /\ e[g].at = "store"
        /\ OnceStep(g, "done = 1", Position("unlock", 0))
        /\ preS' = [preS EXCEPT !.done = 1]
        /\ UNCHANGED <<q, s, arg, nops>>

OnceUnlock ==
    \E g \in Goroutines :
        /\ e[g].at = "unlock"
        /\ OnceStep(g, "m.Unlock", Position("return", 0))
        /\ preS' = [preS EXCEPT !.m = IF preS.m = g THEN 0 ELSE preS.m]
        /\ UNCHANGED <<q, s, arg, nops>>

OnceReturn ==
    \E g \in Goroutines :
        /\ e[g].at = "return"
        /\ OnceStep(g, "return ed25519", Position("returned", 0))
        /\ q' = [q EXCEPT ![g] = s]
        /\ UNCHANGED <<s, preS, arg, nops>>

NextOnce ==
    \/ OnceCall
    \/ OnceLock
    \/ OnceRecheck
    \/ OnceInit
    \/ OnceStore
    \/ OnceUnlock
    \/ OnceReturn

SpecOnce == InitOnce /\ [][NextOnce]_vars

FullyInitialised(params) ==
    /\ \A f \in {"P", "N", "B", "Gx", "Gy", "bigZero", "bigOne"} : params[f] = "set"
    /\ params.BitSize = 256

\* C28: under every interleaving of concurrent calls of Ed25519(),
\* initEd25519Params is entered at most once, and exactly once when a call
\* has returned; every call that returns sees all the parameters set (P,
\* N, B, Gx, Gy, BitSize = 256, bigZero and bigOne); and no parameter is
\* written once done is set.
C28_ParametersInitialisedOnce ==
    /\ nops <= 1
    /\ arg = 0
    /\ preS.done = 1 => FullyInitialised(s)
    /\ \A g \in Goroutines :
           e[g].at = "returned" => (nops = 1 /\ FullyInitialised(q[g]))

C28_LateCallerFindsDone ==
    /\ ret = "part_003"
    /\ \E g \in Goroutines, h \in Goroutines :
        /\ e[g].at = "recheck"
        /\ preS.done = 1
        /\ e[h].at = "returned"
        /\ FullyInitialised(q[h])

-----------------------------------------------------------------------------
(* SpecNaf: Scalar.NonAdjacentForm one turn of its loop at a time.  arg is  *)
(* <<w>>, q is digits, pre is <<pos, carry, naf>>, preS is pos before the   *)
(* last turn, ret holds the indexes of digits read and of naf written by    *)
(* the last turn, and nops counts the turns.                                *)

nafLength == 256

digitsLength == 5

noAccess == [read |-> {}, written |-> {}]

InitNaf ==
    /\ e = NewIdentityElement
    /\ q = NewIdentityElement
    /\ s \in DigitScalars
    /\ op = "new"
    /\ arg = <<>>
    /\ pre = <<0, 0, <<>>>>
    /\ preS = 0
    /\ err = errNil
    /\ ret = noAccess
    /\ panicked = FALSE
    /\ nops = 0

\* The call up to the first test of "for pos < 256".
NafCall ==
    /\ op = "new"
    /\ \E w \in 0..MaxWidth :
        /\ arg' = <<w>>
        /\ panicked' = (highBitSet(scBytes(s)) \/ w < 2 \/ w > 8)
        /\ op' = IF panicked' THEN "panic" ELSE "for pos < 256"
    /\ q' = nafDigits(scBytes(s))
    /\ pre' = <<0, 0, [k \in 1..nafLength |-> 0]>>
    /\ UNCHANGED <<e, s, preS, err, ret, nops>>

\* One turn of the loop.
NafTurn ==
    /\ op = "for pos < 256"
    /\ pre[1] < 256
    /\ nops <= nafLength
    /\ pre' = nafStep(pre, q, arg[1])
    /\ preS' = pre[1]
    /\ ret' = [read |-> nafDigitsRead(pre[1], arg[1]),
               written |-> nafWritten(pre, q, arg[1])]
    /\ nops' = nops + 1
    /\ UNCHANGED <<e, q, s, op, arg, err, panicked>>

\* The loop condition fails: return naf.
NafReturn ==
    /\ op = "for pos < 256"
    /\ pre[1] >= 256
    /\ op' = "return naf"
    /\ UNCHANGED <<e, q, s, arg, pre, preS, err, ret, panicked, nops>>

NextNaf ==
    \/ NafCall
    \/ NafTurn
    \/ NafReturn

SpecNaf == InitNaf /\ [][NextNaf]_vars

\* C29: for every width 2..8 and every encoding with the top bit clear, each
\* turn of the NonAdjacentForm loop leaves pos strictly greater than it
\* found it, the loop is left after at most 256 turns with pos >= 256,
\* naf is written only at an index below 256, and digits is read only at an
\* index of at most 4.
C29_NafLoopInBounds ==
    /\ nops <= nafLength
    /\ op = "return naf" => pre[1] >= 256
    /\ nops > 0 =>
        /\ preS < pre[1]
        /\ preS < 256
        /\ \A i \in ret.written : 0 <= i /\ i < nafLength
        /\ \A i \in ret.read : 0 <= i /\ i <= 4 /\ i < digitsLength

\* The last turn reads digits[4] for a window that crosses the fourth word,
\* writes a digit above position 248 and leaves the loop.
C29_WindowCrossesLastWord ==
    /\ op = "return naf"
    /\ 4 \in ret.read
    /\ ret.written # {}
    /\ \A i \in ret.written : i >= 248

-----------------------------------------------------------------------------
(* SpecReduce: scReduce one statement group at a time on a 64-byte input.   *)
(* arg is the input, pre the limbs s0..s23, nops the number of groups of    *)
(* scReduceSteps done, ret the set of int64 values the last group computed  *)
(* and preS the packed output.                                              *)

scReduceConstants == {666643, 470296, 654183, 997805, 136657, 683901}

\* The values load_3 and load_4 return and the limbs made of them.
scReduceLoaded(in) ==
    {load3(in, o) : o \in {0, 5, 13, 18, 21, 26, 34, 39, 42, 47, 55}}
    \cup {load4(in, o) : o \in {2, 7, 10, 15, 23, 28, 31, 36, 44, 49, 52, 57, 60}}
    \cup {scReduceLoad(in)[i] : i \in 1..24}

\* carry[i] of a carry statement st at S.
scReduceCarryOf(S, st) ==
    IF st[1] = "round" THEN ShiftRight(Int64Add(S[st[2] + 1], <<0, 1048576>>), 21)
    ELSE ShiftRight(S[st[2] + 1], 21)

\* Every int64 value that the statement group st computes at S: the
\* products and the limbs assigned by a fold; the rounded limb, the carry,
\* the shifted carry and the two limbs assigned by a carry.
scReduceComputed(S, st) ==
    IF st[1] = "fold"
    THEN {Int64Mul(S[st[2] + 1], c) : c \in scReduceConstants}
         \cup {scReduceFold(S, st[2])[st[2] - k + 1] : k \in 7..12}
    ELSE {scReduceCarryOf(S, st), ShiftLeft(scReduceCarryOf(S, st), 21),
          scReduceStep(S, st)[st[2] + 1], scReduceStep(S, st)[st[2] + 2]}
         \cup (IF st[1] = "round" THEN {Int64Add(S[st[2] + 1], <<0, 1048576>>)} ELSE {})

InitReduce ==
    /\ e = NewIdentityElement
    /\ q = NewIdentityElement
    /\ s = scZero
    /\ op = "new"
    /\ arg \in WideInputs
    /\ pre = <<>>
    /\ preS = <<>>
    /\ err = errNil
    /\ ret = {}
    /\ panicked = FALSE
    /\ nops = 0

\* s0 .. s23 := the 21-bit pieces of the input.
ReduceLoad ==
    /\ op = "new"
    /\ op' = "scReduce"
    /\ pre' = scReduceLoad(arg)
    /\ ret' = scReduceLoaded(arg)
    /\ UNCHANGED <<e, q, s, arg, preS, err, panicked, nops>>

\* The next fold or carry.
ReduceStatement ==
    /\ op = "scReduce"
    /\ nops < Len(scReduceSteps)
    /\ pre' = scReduceStep(pre, scReduceSteps[nops + 1])
    /\ ret' = scReduceComputed(pre, scReduceSteps[nops + 1])
    /\ nops' = nops + 1
    /\ UNCHANGED <<e, q, s, op, arg, preS, err, panicked>>

\* out[0] .. out[31] := the bytes of s0 .. s11.
ReducePack ==
    /\ op = "scReduce"
    /\ nops = Len(scReduceSteps)
    /\ op' = "out"
    /\ preS' = scReduceOut(pre)
    /\ UNCHANGED <<e, q, s, arg, pre, err, ret, panicked, nops>>

NextReduce ==
    \/ ReduceLoad
    \/ ReduceStatement
    \/ ReducePack

SpecReduce == InitReduce /\ [][NextReduce]_vars

\* An int64 <<hi, lo>> of magnitude below 2^51, far inside the int64 range.
WithinInt64(v) == -TwoTo(30) <= v[1] /\ v[1] < TwoTo(30) /\ 0 <= v[2] /\ v[2] < TwoTo21

\* Bit n of s0 + s1 * 2^21 + ... + s11 * 2^231.
limbSumBit(S, n) ==
    IF n < 231 THEN (S[(n \div 21) + 1][2] \div TwoTo(n % 21)) % 2
    ELSE (((S[12][1] * TwoTo21) + S[12][2]) \div TwoTo(n - 231)) % 2

\* Bit n of the 32 bytes out, little-endian.
outBit(out, n) == (out[(n \div 8) + 1] \div TwoTo(n % 8)) % 2

NoOverflow == \A v \in ret : WithinInt64(v)

PackedIsLimbSum == \A n \in 0..255 : outBit(preS, n) = limbSumBit(pre, n)

\* C30 as stated: no int64 value computed by scReduce overflows, and at the
\* packing each of s0 .. s11 is in [0, 2^21) and s12 = 0, so that the 32
\* bytes are the limb sum.
C30_PackedLimbsBelow21Bits ==
    /\ NoOverflow
    /\ op = "out" =>
        /\ \A i \in 0..11 : pre[i + 1][1] = 0
        /\ pre[13] = <<0, 0>>
        /\ PackedIsLimbSum

\* C30, amended: no int64 value computed by scReduce overflows, and at the
\* packing each of s0 .. s10 is in [0, 2^21), s11 is in [0, 2^21] and
\* s12 = 0; out[31] takes all of s11 >> 17, so the 32 bytes are the limb sum.
C30_PackedLimbsTopLimbInclusive ==
    /\ NoOverflow
    /\ op = "out" =>
        /\ \A i \in 0..10 : pre[i + 1][1] = 0
        /\ pre[12][1] = 0 \/ pre[12] = <<1, 0>>
        /\ pre[13] = <<0, 0>>
        /\ PackedIsLimbSum

\* The input is one less than the order: s11 is 2^21 at the packing.
C30_TopLimbIsTwoTo21 ==
    /\ op = "out"
    /\ pre[12] = <<1, 0>>
    /\ preS[ScalarLen] = 16

=============================================================================
